---- MODULE Spec2Model ----
(***************************************************************************)
(* A model of the NIRVANA fitting core: the parameter (un)packer, the      *)
(* prior transform, the smoothness penalty, the log-likelihood and the fit *)
(* orchestrator, as written in nirvana/fitting.py and                      *)
(* nirvana/models/bisym.py.                                                *)
(*                                                                         *)
(* Numbers.  A unit-cube coordinate u = k/UnitDen is carried as the        *)
(* integer k, and every quantity derived from it is carried in the same    *)
(* unit (1/UnitDen), so that 360*u is the integer 360*k and the interval   *)
(* [0,360) is 0 <= n < 360*UnitDen.                                        *)
(***************************************************************************)
EXTENDS Integers, Sequences, FiniteSets, TLC

VARIABLES
    args,       \* the context: flags and bin edges (FitArgs / Kinematics)
    params,     \* the flat parameter vector handed to a callback
    gaussprior, \* ptform's keyword argument
    pc,         \* position of the callback driver
    paramdict,  \* result of the last unpack: [err, d]
    flat,       \* result of the last repack / ptform: [err, v]
    again,      \* result of unpacking flat once more: [err, d]
    after,      \* the arguments as the last callback left them: [params, args]
    array,      \* smoothing's array argument
    weight,     \* smoothing's weight argument
    chisq,      \* smoothing's per-bin terms, after the non-finite ones are zeroed
    penalty,    \* smoothing's return value
    data,       \* the data misfit terms a likelihood sums: [vel, sig, mix]
    llike,      \* result of the last likelihood call: [err, v]
    call,       \* the arguments of the fit call under way
    fpc,        \* position in fit
    conv,       \* the module-global conv of fitting.py and of models/bisym.py
    plans,      \* number of ConvolveFFTW objects created so far (their ids)
    pool,       \* the multiprocessing pool: "none", "open" or "closed"
    sampler,    \* the sampler or solver fit has built
    done,       \* the steps fit has performed, in order
    outcome,    \* "running", "returned" or the exception that left fit
    evals,      \* likelihood evaluations the sampler has asked for
    smears,     \* the cnvfftw argument of every smear call made by bisym_model
    planes      \* the model planes the last bisym_model call masked and binned

cbvars == <<args, params, gaussprior, paramdict, flat, again, after>>

smvars == <<array, weight, chisq, penalty>>

lkvars == <<data, llike>>

fitvars == <<call, fpc, conv, plans, pool, sampler, done, outcome, evals, smears, planes>>

vars == <<pc, cbvars, smvars, lkvars, fitvars>>

----------------------------------------------------------------------------
(* Bounds of the model *)

\* largest number of bin edges, len(args.edges)
MaxEdges == 4
\* how many entries a vector may fall short of the layout length
MaxShort == 1
\* resolution of the unit cube: coordinates are k/UnitDen, k in 0..UnitDen-1
UnitDen == 2
\* first entry of a tagged test vector is in 0..MaxBase
MaxBase == 1
\* longest array handed to smoothing
MaxLen == 4
\* array entries are Scales times an integer in -1..MaxAmp
MaxAmp == 4
\* likelihood evaluations a sampler run asks for, at most
MaxEvals == 2

\* longest posterior vector handed to fileprep
MaxPost == 22

----------------------------------------------------------------------------
(* Python helpers *)

Min(a, b) == IF a <= b THEN a ELSE b

\* s[a:b] for 0 <= a, 0 <= b: clipped to the sequence, never an error
PySlice(s, a, b) ==
    LET lo == Min(a, Len(s))
        hi == Min(b, Len(s))
    IN  IF hi <= lo THEN <<>> ELSE SubSeq(s, lo + 1, hi)

\* s[i] for 0 <= i: defined only when i < len(s)
PyInRange(s, i) == i < Len(s)

PyItem(s, i) == s[i + 1]

NoDict == [k \in {} |-> 0]

Raise(e) == [err |-> e, d |-> NoDict]

Ok(d) == [err |-> "none", d |-> d]

----------------------------------------------------------------------------
(* Floating-point values: an exact rational n/d (d > 0, lowest terms), or  *)
(* one of the non-finite values +inf, -inf, nan that numpy's arithmetic    *)
(* yields instead of raising.                                              *)

Abs(x) == IF x < 0 THEN -x ELSE x

Sign(x) == IF x < 0 THEN -1 ELSE IF x > 0 THEN 1 ELSE 0

RECURSIVE Gcd(_, _)
Gcd(a, b) == IF b = 0 THEN a ELSE Gcd(b, a % b)

Fin(n, d) ==
    LET g == Gcd(Abs(n), Abs(d))
    IN  [k |-> "fin", n |-> (Sign(d) * n) \div g, d |-> Abs(d) \div g]

XInt(n) == [k |-> "fin", n |-> n, d |-> 1]

Inf(sgn) == [k |-> "inf", n |-> sgn, d |-> 0]

NaN == [k |-> "nan", n |-> 0, d |-> 0]

\* numpy.isfinite
IsFinite(x) == x.k = "fin"

XSign(x) == Sign(x.n)

XNeg(x) == [x EXCEPT !.n = -x.n]

XAdd(x, y) ==
    IF x.k = "nan" \/ y.k = "nan" THEN NaN
    ELSE IF x.k = "inf" /\ y.k = "inf" THEN (IF x.n = y.n THEN x ELSE NaN)
    ELSE IF x.k = "inf" THEN x
    ELSE IF y.k = "inf" THEN y
    ELSE Fin(x.n * y.d + y.n * x.d, x.d * y.d)

XSub(x, y) == XAdd(x, XNeg(y))

XMul(x, y) ==
    IF x.k = "nan" \/ y.k = "nan" THEN NaN
    ELSE IF x.k = "inf" \/ y.k = "inf"
         THEN (IF XSign(x) * XSign(y) = 0 THEN NaN ELSE Inf(XSign(x) * XSign(y)))
    ELSE Fin(x.n * y.n, x.d * y.d)

\* true division of floats: x/0 is +-inf, 0/0 is nan, never an exception
XDiv(x, y) ==
    IF x.k = "nan" \/ y.k = "nan" THEN NaN
    ELSE IF x.k = "inf" /\ y.k = "inf" THEN NaN
    ELSE IF x.k = "inf" THEN Inf(IF XSign(y) < 0 THEN -x.n ELSE x.n)
    ELSE IF y.k = "inf" THEN XInt(0)
    ELSE IF y.n = 0 THEN (IF x.n = 0 THEN NaN ELSE Inf(XSign(x)))
    ELSE Fin(x.n * y.d, x.d * y.n)

XAbs(x) == [x EXCEPT !.n = Abs(x.n)]

RECURSIVE XSumFrom(_, _)
XSumFrom(s, i) == IF i > Len(s) THEN XInt(0) ELSE XAdd(s[i], XSumFrom(s, i + 1))

\* numpy's sum of an array
XSum(s) == XSumFrom(s, 1)

\* x >= 0 for a finite x
XNonNeg(x) == x.k = "fin" /\ x.n >= 0

----------------------------------------------------------------------------
(* fitting.smoothing and models/bisym.smoothing *)

\* a slip: the deviation from the average is not squared
smoothTerms_unsquared(edgearray, arr) ==
    [i \in 1..Len(arr) |->
        LET avg == XDiv(XAdd(XInt(edgearray[i]), XInt(edgearray[i + 2])), XInt(2))
            dev == XSub(avg, XInt(arr[i]))
            c   == XDiv(dev, XAbs(XInt(arr[i])))
        IN  IF ~IsFinite(c) THEN XInt(0) ELSE c]

\* a slip: the non-finite terms are left in the array
smoothTerms_uncaught(edgearray, arr) ==
    [i \in 1..Len(arr) |->
        LET avg == XDiv(XAdd(XInt(edgearray[i]), XInt(edgearray[i + 2])), XInt(2))
            dev == XSub(avg, XInt(arr[i]))
        IN  XDiv(XMul(dev, dev), XAbs(XInt(arr[i])))]

\* chisq = (avgs - array)**2 / np.abs(array), with avgs the mean of the two
\* neighbours in edgearray; chisq[~np.isfinite(chisq)] = 0
smoothTerms(edgearray, arr) ==
    [i \in 1..Len(arr) |->
        LET avg == XDiv(XAdd(XInt(edgearray[i]), XInt(edgearray[i + 2])), XInt(2))
            dev == XSub(avg, XInt(arr[i]))
            c   == XDiv(XMul(dev, dev), XAbs(XInt(arr[i])))
        IN  IF ~IsFinite(c) THEN XInt(0) ELSE c]

\* a slip: the first value repeated at the left edge, as bisym.smoothing does
smoothingTerms_repeatFirst(arr) ==
    smoothTerms(<<arr[1]>> \o arr \o <<arr[Len(arr)]>>, arr)

\* fitting.smoothing: 0 at the left edge, the last value repeated at the right
smoothingTerms(arr) == smoothTerms(<<0>> \o arr \o <<arr[Len(arr)]>>, arr)

smoothing(arr, w) == XMul(XSum(smoothingTerms(arr)), XInt(w))

\* a slip: the right edge is padded with 0 like the left edge of
\* fitting.smoothing
smoothing_bisymTerms_zeroRight(arr) == smoothTerms(<<arr[1]>> \o arr \o <<0>>, arr)

\* bisym.smoothing: the first and the last value repeated at the edges
smoothing_bisymTerms(arr) == smoothTerms(<<arr[1]>> \o arr \o <<arr[Len(arr)]>>, arr)

smoothing_bisym(arr, w) == XMul(XSum(smoothing_bisymTerms(arr)), XInt(w))

----------------------------------------------------------------------------
(* fitting.unpack *)

\* the keys unpack assigns for a context
unpackKeys(a) ==
    {"xc", "yc", "inc", "pa", "pab", "vsys", "vt", "v2t", "v2r"}
        \cup (IF a.disp THEN {"sig"} ELSE {})
        \cup (IF a.mix THEN {"Q", "M", "lnV"} ELSE {})

\* index just past the last profile entry unpack reads
unpackEnd(a, jump) ==
    LET start == a.nglobs
    IN  IF a.disp THEN start + 3 * jump + (jump + 1) ELSE start + 3 * jump

\* the length of the vector unpack's offsets describe
LayoutLen(a, jump) == unpackEnd(a, jump) + (IF a.mix THEN 3 ELSE 0)

unpackJ(p, a, jump) ==
    LET start == a.nglobs
        end   == unpackEnd(a, jump)
        globs == PySlice(p, 0, a.nglobs)
        d == [k \in unpackKeys(a) |->
                CASE k = "inc"  -> globs[1]
                  [] k = "pa"   -> globs[2]
                  [] k = "pab"  -> globs[3]
                  [] k = "vsys" -> globs[4]
                  [] k = "xc"   -> IF a.nglobs = 6 THEN globs[5] ELSE 0
                  [] k = "yc"   -> IF a.nglobs = 6 THEN globs[6] ELSE 0
                  [] k = "vt"   -> PySlice(p, start, start + jump)
                  [] k = "v2t"  -> PySlice(p, start + jump, start + 2 * jump)
                  [] k = "v2r"  -> PySlice(p, start + 2 * jump, start + 3 * jump)
                  [] k = "sig"  -> PySlice(p, start + 3 * jump, end)
                  [] k = "Q"    -> PyItem(p, end)
                  [] k = "M"    -> PyItem(p, end + 1)
                  [] k = "lnV"  -> PyItem(p, end + 2)]
    IN  IF Len(globs) # a.nglobs THEN Raise("ValueError")
        ELSE IF a.mix /\ ~PyInRange(p, end + 2) THEN Raise("IndexError")
        ELSE Ok(d)

\* a slip in the offsets: the v2t block starts one entry early
unpack_overlap(p, a) ==
    LET r     == unpackJ(p, a, Len(a.edges))
        start == a.nglobs
        jump  == Len(a.edges)
    IN  IF r.err # "none" THEN r
        ELSE [r EXCEPT !.d["v2t"] = PySlice(p, start + jump - 1, start + 2 * jump - 1)]

\* jump defaults to len(args.edges)
unpack(p, a) == unpackJ(p, a, Len(a.edges))

----------------------------------------------------------------------------
(* Values a prior transform produces.  A number is carried exactly; the    *)
(* inverse CDFs of scipy.stats are carried as terms naming their quantile, *)
(* centre and width, so that which neighbour a draw is centred on is part  *)
(* of the value.                                                           *)

Num(n) == [k |-> "num", n |-> n, q |-> 0, loc |-> <<>>, sd |-> 0,
           left |-> 0, right |-> 0]

\* stats.norm.ppf(q, loc, sd)
NormPpf(q, loc, sd) == [k |-> "ppf", n |-> 0, q |-> q, loc |-> <<loc>>, sd |-> sd,
                        left |-> 0, right |-> 0]

\* fitting.trunc(q, mean, std, left, right)
trunc(q, mean, std, left, right) ==
    [k |-> "trunc", n |-> 0, q |-> q, loc |-> <<Num(mean)>>, sd |-> std,
     left |-> left, right |-> right]

\* c * array, elementwise (numpy)
Scale(c, arr) == [i \in 1..Len(arr) |-> Num(c * arr[i])]

\* (2*x - 1) * c for a unit-cube coordinate x = k/UnitDen
Centred(x, c) == Num((2 * x - UnitDen) * c)

----------------------------------------------------------------------------
(* fitting.ptform *)

\* the downward loop of the correlated prior: for i in range(mid-1, stop, -1)
RECURSIVE CorrDown(_, _, _)
CorrDown(vi, i, stop) ==
    IF i <= stop THEN vi
    ELSE CorrDown([vi EXCEPT ![i + 1] = NormPpf(vi[i + 1].n, vi[i + 2], 50)],
                  i - 1, stop)

\* the upward loop of the correlated prior: for i in range(mid+1, len(vi))
RECURSIVE CorrUp(_, _)
CorrUp(vi, i) ==
    IF i >= Len(vi) THEN vi
    ELSE CorrUp([vi EXCEPT ![i + 1] = NormPpf(vi[i + 1].n, vi[i], 50)], i + 1)

\* one pass of "for vi in vs" over a copied profile; stop is the index the
\* downward loop ends before (-1 in fitting.py)
Correlate(arr, stop) ==
    LET vi  == [i \in 1..Len(arr) |-> Num(arr[i])]
        mid == Len(vi) \div 2
        v1  == [vi EXCEPT ![mid + 1] = Num(400 * vi[mid + 1].n)]
    IN  CorrUp(CorrDown(v1, mid - 1, stop), mid + 1)

\* the assembly at the end of ptform: the locals it reads, in order
repackNames(a) ==
    <<"incp", "pap", "pabp", "vsysp">>
        \o (IF a.nglobs = 6 THEN <<"xcp", "ycp">> ELSE <<>>)
        \o <<"vtp", "v2tp", "v2rp">>
        \o (IF a.disp THEN <<"sigp">> ELSE <<>>)
        \o (IF a.mix THEN <<"Qp", "Mp", "lnVp">> ELSE <<>>)

IsArrayLocal(name) == name \in {"vtp", "v2tp", "v2rp", "sigp"}

RECURSIVE repackFrom(_, _, _)
repackFrom(L, names, i) ==
    IF i > Len(names) THEN <<>>
    ELSE (IF IsArrayLocal(names[i]) THEN L[names[i]] ELSE <<L[names[i]]>>)
            \o repackFrom(L, names, i + 1)

\* a slip in the assembly: v2rp written before v2tp
repack_swapped(L, a) ==
    LET names == repackNames(a)
        pos(n) == CHOOSE i \in 1..Len(names) : names[i] = n
        swapped == [i \in 1..Len(names) |->
                        IF i = pos("v2tp") THEN "v2rp"
                        ELSE IF i = pos("v2rp") THEN "v2tp" ELSE names[i]]
    IN  IF \E i \in 1..Len(names) : names[i] \notin DOMAIN L
        THEN [err |-> "UnboundLocalError", v |-> <<>>]
        ELSE [err |-> "none", v |-> repackFrom(L, swapped, 1)]

\* repack = [incp,pap,pabp,vsysp] (+ [xcp,ycp]) + [*vtp,*v2tp,*v2rp] (+ [*sigp])
\* (+ [Qp,Mp,lnVp]); reading a local no branch has bound is an UnboundLocalError
repack(L, a) ==
    LET names == repackNames(a)
    IN  IF \E i \in 1..Len(names) : names[i] \notin DOMAIN L
        THEN [err |-> "UnboundLocalError", v |-> <<>>]
        ELSE [err |-> "none", v |-> repackFrom(L, names, 1)]

\* the keys the truncated-Gaussian branch looks up in guessdict, in order
GuessKeys == <<"incg", "pag", "vsysg", "vtg", "v2tg", "v2rg">>

\* locals bound by the truncated-Gaussian branch
gaussLocals(d, g) ==
    [k \in {"incp", "pap", "pabp", "vsysp", "vtp", "v2tp", "v2rp"} |->
        CASE k = "incp"  -> trunc(d["inc"], g["incg"], 2, g["incg"] - 5, g["incg"] + 5)
          [] k = "pap"   -> trunc(d["pa"], g["pag"], 10, 0, 360)
          [] k = "pabp"  -> Num(180 * d["pab"])
          [] k = "vsysp" -> trunc(d["vsys"], g["vsysg"], 1, g["vsysg"] - 5, g["vsysg"] + 5)
          [] k = "vtp"   -> [i \in 1..Len(d["vt"]) |-> trunc(d["vt"][i], g["vtg"], 50, 0, 400)]
          [] k = "v2tp"  -> [i \in 1..Len(d["v2t"]) |-> trunc(d["v2t"][i], g["v2tg"], 50, 0, 200)]
          [] k = "v2rp"  -> [i \in 1..Len(d["v2r"]) |-> trunc(d["v2r"][i], g["v2rg"], 50, 0, 200)]]

\* a slip in the scaling: the angle treated as a range centred on 0
uniformAngle_centred(c, x) == Centred(x, c)

\* c * paramdict[key] for the angles: 85 * inc, 360 * pa, 180 * pab
uniformAngle(c, x) == Num(c * x)

\* locals bound by the else branch (uniform, or correlated when weight == -1)
uniformLocals(d, a) ==
    LET names == {"incp", "pap", "pabp", "vsysp", "vtp", "v2tp", "v2rp"}
                   \cup (IF a.disp THEN {"sigp"} ELSE {})
                   \cup (IF a.weight # -1 /\ a.mix THEN {"Qp", "Mp", "lnVp"} ELSE {})
    IN  [k \in names |->
            CASE k = "incp"  -> uniformAngle(85, d["inc"])
              [] k = "pap"   -> uniformAngle(360, d["pa"])
              [] k = "pabp"  -> uniformAngle(180, d["pab"])
              [] k = "vsysp" -> Centred(d["vsys"], 100)
              [] k = "vtp"   -> IF a.weight = -1 THEN Correlate(d["vt"], -1)
                                ELSE Scale(400, d["vt"])
              [] k = "v2tp"  -> IF a.weight = -1 THEN Correlate(d["v2t"], -1)
                                ELSE Scale(200, d["v2t"])
              [] k = "v2rp"  -> IF a.weight = -1 THEN Correlate(d["v2r"], -1)
                                ELSE Scale(200, d["v2r"])
              [] k = "sigp"  -> IF a.weight = -1 THEN Correlate(d["sig"], -1)
                                ELSE Scale(300, d["sig"])
              [] k = "Qp"    -> Num(d["Q"])
              [] k = "Mp"    -> Centred(d["M"], 1000)
              [] k = "lnVp"  -> Centred(d["lnV"], 20)]

\* the centre coordinates, computed while repacking when nglobs == 6
centreLocals(d, g, gp) ==
    [k \in {"xcp", "ycp"} |->
        IF gp THEN NormPpf(d[IF k = "xcp" THEN "xc" ELSE "yc"],
                           Num(g[IF k = "xcp" THEN "xc" ELSE "yc"]), 5)
        ELSE Centred(d[IF k = "xcp" THEN "xc" ELSE "yc"], 20)]

Fail(e) == [err |-> e, v |-> <<>>]

ptform(p, a, gp) ==
    LET pd    == unpack(p, a)
        gauss == gp /\ a.hasguess
        gd    == IF gauss THEN unpack(a.guess, a) ELSE Raise("unbound")
        empty == \E k \in {"vt", "v2t", "v2r", "sig"} :
                    k \in DOMAIN pd.d /\ Len(pd.d[k]) = 0
    IN  IF pd.err # "none" THEN Fail(pd.err)
        ELSE IF gauss /\ gd.err # "none" THEN Fail(gd.err)
        ELSE IF gauss /\ \E i \in 1..Len(GuessKeys) : GuessKeys[i] \notin DOMAIN gd.d
             THEN Fail("KeyError")
        ELSE IF ~gauss /\ a.weight = -1 /\ empty THEN Fail("IndexError")
        ELSE IF a.nglobs = 6 /\ gp /\ ~gauss THEN Fail("UnboundLocalError")
        ELSE LET L1 == IF gauss THEN gaussLocals(pd.d, gd.d) ELSE uniformLocals(pd.d, a)
                 L2 == IF a.nglobs = 6 THEN centreLocals(pd.d, gd.d, gp) @@ L1 ELSE L1
             IN  repack(L2, a)

----------------------------------------------------------------------------
(* models/bisym.ptform.  Its unpack is nirvana.data.util.unpack and its    *)
(* bounds are set by FitArgs.setbounds; neither is part of the sources at  *)
(* hand, so both follow the layout the specification and their callers     *)
(* (bisym.ptform, bisym.fit, plotting.profs) describe: blocks of           *)
(* len(edges) - fixcent free bins, a leading 0 inserted for a fixed centre *)
(* bin, and one dispersion entry per edge.                                 *)

util_unpack(p, a, bound) ==
    LET start == a.nglobs
        fc    == IF a.fixcent THEN 1 ELSE 0
        jump  == Len(a.edges) - fc
        end   == start + 3 * jump + (jump + fc)
        globs == PySlice(p, 0, a.nglobs)
        zero  == IF a.fixcent /\ ~bound THEN <<0>> ELSE <<>>
        keys  == {"xc", "yc", "inc", "pa", "pab", "vsys", "vt", "v2t", "v2r"}
                    \cup (IF a.disp THEN {"sig"} ELSE {})
        d == [k \in keys |->
                CASE k = "inc"  -> globs[1]
                  [] k = "pa"   -> globs[2]
                  [] k = "pab"  -> globs[3]
                  [] k = "vsys" -> globs[4]
                  [] k = "xc"   -> IF a.nglobs = 6 THEN globs[5] ELSE 0
                  [] k = "yc"   -> IF a.nglobs = 6 THEN globs[6] ELSE 0
                  [] k = "vt"   -> zero \o PySlice(p, start, start + jump)
                  [] k = "v2t"  -> zero \o PySlice(p, start + jump, start + 2 * jump)
                  [] k = "v2r"  -> zero \o PySlice(p, start + 2 * jump, start + 3 * jump)
                  [] k = "sig"  -> PySlice(p, start + 3 * jump, end)]
    IN  IF Len(globs) # a.nglobs THEN Raise("ValueError") ELSE Ok(d)

\* the length of the vector bisym.fit hands to the sampler
util_LayoutLen(a) ==
    a.nglobs + 3 * (Len(a.edges) - (IF a.fixcent THEN 1 ELSE 0))
        + (IF a.disp THEN Len(a.edges) ELSE 0)

\* the [low, high] row of one parameter
boundRow(name) ==
    CASE name = "inc"  -> <<45, 3>>
      [] name = "pa"   -> <<0, 360>>
      [] name = "pab"  -> <<0, 180>>
      [] name = "vsys" -> <<-100, 100>>
      [] name = "xc"   -> <<-20, 20>>
      [] name = "yc"   -> <<-20, 20>>
      [] name = "vt"   -> <<0, 400>>
      [] name = "v2t"  -> <<0, 200>>
      [] name = "v2r"  -> <<0, 200>>
      [] name = "sig"  -> <<0, 300>>

\* args.bounds: one row per entry of the parameter vector
bounds(a) ==
    LET jump == Len(a.edges) - (IF a.fixcent THEN 1 ELSE 0)
        rep(name, n) == [i \in 1..n |-> boundRow(name)]
    IN  <<boundRow("inc"), boundRow("pa"), boundRow("pab"), boundRow("vsys")>>
            \o (IF a.nglobs = 6 THEN <<boundRow("xc"), boundRow("yc")>> ELSE <<>>)
            \o rep("vt", jump) \o rep("v2t", jump) \o rep("v2r", jump)
            \o (IF a.disp THEN rep("sig", Len(a.edges)) ELSE <<>>)

\* unifprior on a scalar key: (high - low) * u + low
unifprior(row, x) == Num((row[2] - row[1]) * x + row[1] * UnitDen)

\* unifprior on an array key: rows against params[key][indx:]
unifpriorArr(rows, arr, indx) ==
    LET tail == PySlice(arr, indx, Len(arr))
    IN  [i \in 1..Len(tail) |-> unifprior(rows[i], tail[i])]

bisymUniformLocals(d, b, a) ==
    LET fc    == IF a.fixcent THEN 1 ELSE 0
        names == {"incp", "pap", "pabp", "vsysp", "vtp", "v2tp", "v2rp"}
                   \cup (IF a.disp THEN {"sigp"} ELSE {})
    IN  [k \in names |->
            CASE k = "pap"   -> unifprior(b["pa"], d["pa"])
              [] k = "incp"  -> NormPpf(d["inc"], Num(b["inc"][1]), b["inc"][2])
              [] k = "pabp"  -> unifprior(b["pab"], d["pab"])
              [] k = "vsysp" -> unifprior(b["vsys"], d["vsys"])
              [] k = "vtp"   -> IF a.weight = -1 THEN Correlate(d["vt"], -1 + fc)
                                ELSE unifpriorArr(b["vt"], d["vt"], fc)
              [] k = "v2tp"  -> IF a.weight = -1 THEN Correlate(d["v2t"], -1 + fc)
                                ELSE unifpriorArr(b["v2t"], d["v2t"], fc)
              [] k = "v2rp"  -> IF a.weight = -1 THEN Correlate(d["v2r"], -1 + fc)
                                ELSE unifpriorArr(b["v2r"], d["v2r"], fc)
              [] k = "sigp"  -> IF a.weight = -1 THEN Correlate(d["sig"], -1 + fc)
                                ELSE unifpriorArr(b["sig"], d["sig"], 0)]

bisymCentreLocals(d, b, g, gp) ==
    [k \in {"xcp", "ycp"} |->
        IF gp THEN NormPpf(d[IF k = "xcp" THEN "xc" ELSE "yc"],
                           Num(g[IF k = "xcp" THEN "xc" ELSE "yc"]), 5)
        ELSE unifprior(b[IF k = "xcp" THEN "xc" ELSE "yc"],
                       d[IF k = "xcp" THEN "xc" ELSE "yc"])]

\* the assembly at the end of bisym.ptform: no mixture entries
bisymRepack(L, a) == repack(L, [a EXCEPT !.mix = FALSE])

ptform_bisym(p, a, gp) ==
    LET pd    == util_unpack(p, a, FALSE)
        bd    == util_unpack(bounds(a), a, TRUE)
        gauss == gp /\ a.hasguess
        gd    == IF gauss THEN util_unpack(a.guess, a, FALSE) ELSE Raise("unbound")
        fc    == IF a.fixcent THEN 1 ELSE 0
        arrs  == {"vt", "v2t", "v2r"} \cup (IF a.disp THEN {"sig"} ELSE {})
        empty == \E k \in arrs : Len(pd.d[k]) = 0
        ragged == \E k \in arrs :
                    Len(bd.d[k]) # Len(pd.d[k]) - (IF k = "sig" THEN 0 ELSE fc)
    IN  IF pd.err # "none" THEN Fail(pd.err)
        ELSE IF bd.err # "none" THEN Fail(bd.err)
        ELSE IF gauss /\ gd.err # "none" THEN Fail(gd.err)
        \* trunc is neither defined nor imported in models/bisym.py
        ELSE IF gauss THEN Fail("NameError")
        ELSE IF a.weight = -1 /\ empty THEN Fail("IndexError")
        ELSE IF a.weight # -1 /\ ragged THEN Fail("ValueError")
        ELSE IF a.nglobs = 6 /\ gp THEN Fail("UnboundLocalError")
        ELSE LET L1 == bisymUniformLocals(pd.d, bd.d, a)
                 L2 == IF a.nglobs = 6
                       THEN bisymCentreLocals(pd.d, bd.d, gd.d, gp) @@ L1 ELSE L1
             IN  bisymRepack(L2, a)

----------------------------------------------------------------------------
(* What a callback leaves behind in its arguments.  The sampler hands over *)
(* the vector as a numpy array; a slice of an array is a view of the same  *)
(* buffer, np.array(x) is a copy, and the result of an arithmetic          *)
(* expression is a new array.  An in-place store changes the vector only   *)
(* if its target lives in the vector's buffer.                             *)

\* an array object: the buffer it lives in, its offset and its length
ArrayAt(buf, off, len) == [buf |-> buf, off |-> off, len |-> len]

\* params[a:b]: a view of the buffer of params
ParamsView(p, a, b) == ArrayAt("params", Min(a, Len(p)), Len(PySlice(p, a, b)))

\* the profiles of paramdict as unpack slices them out of params
unpackViews(p, a) ==
    LET start == a.nglobs
        jump  == Len(a.edges)
    IN  [k \in {"vt", "v2t", "v2r", "sig"} |->
            CASE k = "vt"  -> ParamsView(p, start, start + jump)
              [] k = "v2t" -> ParamsView(p, start + jump, start + 2 * jump)
              [] k = "v2r" -> ParamsView(p, start + 2 * jump, start + 3 * jump)
              [] k = "sig" -> ParamsView(p, start + 3 * jump, unpackEnd(a, jump))]

\* a slip: the profile is used as it is, without a copy
np_array_aliased(x) == x

\* np.array(x): a new array with the contents of x
np_array(x) == ArrayAt("new", 0, x.len)

\* the contents of a vector of numbers, as values
Values(p) == [i \in 1..Len(p) |-> Num(p[i])]

\* the buffer of params after target[i] = vals[i] for every i
Store(buffer, target, vals) ==
    IF target.buf # "params" THEN buffer
    ELSE [i \in 1..Len(buffer) |->
            IF i - 1 \in target.off..(target.off + target.len - 1)
            THEN vals[i - target.off] ELSE buffer[i]]

\* the stores of "for vi in vs", up to the first profile that is empty
RECURSIVE StoreProfiles(_, _, _, _, _)
StoreProfiles(buffer, d, views, names, j) ==
    IF j > Len(names) THEN buffer
    ELSE IF Len(d[names[j]]) = 0 THEN buffer
    ELSE StoreProfiles(Store(buffer, np_array(views[names[j]]),
                             Correlate(d[names[j]], -1)),
                       d, views, names, j + 1)

\* the arguments as fitting.ptform leaves them: the only in-place stores are
\* those of the correlated loop, into vtp, v2tp, v2rp and sigp; no attribute
\* of args is assigned
ptform_leaves(p, a, gp) ==
    LET pd    == unpack(p, a)
        names == <<"vt", "v2t", "v2r">> \o (IF a.disp THEN <<"sig">> ELSE <<>>)
        loops == pd.err = "none" /\ ~(gp /\ a.hasguess) /\ a.weight = -1
    IN  [params |-> IF loops THEN StoreProfiles(Values(p), pd.d, unpackViews(p, a), names, 1)
                    ELSE Values(p),
         args   |-> a]

\* the arguments as fitting.loglike (with mixlike and bisym_model) leaves
\* them: the in-place stores are r /= args.reff in bisym_model, into the
\* array projected_polar returned, and chisq[~np.isfinite(chisq)] = 0 in
\* smoothing, into the array the division produced
loglike_leaves(p, a) ==
    LET r     == ArrayAt("new", 0, 1)
        terms == ArrayAt("new", 0, 1)
    IN  [params |-> Store(Store(Values(p), r, <<Num(0)>>), terms, <<Num(0)>>),
         args   |-> a]

\* models/bisym.ptform: the same loop over copies made with np.array
ptform_bisym_leaves(p, a, gp) ==
    LET pd    == util_unpack(p, a, FALSE)
        names == <<"vt", "v2t", "v2r">> \o (IF a.disp THEN <<"sig">> ELSE <<>>)
        news  == [k \in {"vt", "v2t", "v2r", "sig"} |-> ArrayAt("new", 0, 0)]
        loops == pd.err = "none" /\ ~(gp /\ a.hasguess) /\ a.weight = -1
    IN  [params |-> IF loops THEN StoreProfiles(Values(p), pd.d, news, names, 1)
                    ELSE Values(p),
         args   |-> a]

\* models/bisym.loglike: the only in-place store is that of smoothing
loglike_bisym_leaves(p, a) ==
    [params |-> Store(Values(p), ArrayAt("new", 0, 1), <<Num(0)>>), args |-> a]

----------------------------------------------------------------------------
(* fitting.loglike, fitting.mixlike and models/bisym.loglike.  The sums    *)
(* over the data (the chi-square of the velocity and dispersion models,    *)
(* the log-sum-exp of the mixture) are inputs: finite numbers in data.     *)

\* bisym_model returns a dispersion model only when args.disp is set
hasSigmodel(a) == a.disp

Returned(x) == [err |-> "none", v |-> x]

\* smoothing(vt) + smoothing(v2t) + smoothing(v2r), each with weight w
smoothPenalties(d, w) ==
    XAdd(XAdd(smoothing(d["vt"], w), smoothing(d["v2t"], w)), smoothing(d["v2r"], w))

mixlike(p, a, dat) ==
    LET pd == unpack(p, a)
        l1 == XSub(dat.mix, smoothPenalties(pd.d, a.weight))
        l2 == IF hasSigmodel(a) THEN XSub(l1, smoothing(pd.d["sig"], a.weight)) ELSE l1
    IN  IF pd.err # "none" THEN Fail(pd.err) ELSE Returned(l2)

\* a slip: the smoothness penalties subtracted whatever the weight is
loglike_alwaysSmoothed(p, a, dat) ==
    LET pd == unpack(p, a)
        l1 == XSub(dat.vel, smoothPenalties(pd.d, a.weight))
        l2 == IF hasSigmodel(a) THEN XSub(l1, dat.sig) ELSE l1
        l3 == IF hasSigmodel(a) THEN XSub(l2, smoothing(pd.d["sig"], a.weight)) ELSE l2
    IN  IF a.mix THEN mixlike(p, a, dat)
        ELSE IF pd.err # "none" THEN Fail(pd.err)
        ELSE Returned(l3)

loglike(p, a, dat) ==
    LET pd == unpack(p, a)
        l0 == dat.vel
        l1 == IF a.weight # -1 THEN XSub(l0, smoothPenalties(pd.d, a.weight)) ELSE l0
        l2 == IF hasSigmodel(a) THEN XSub(l1, dat.sig) ELSE l1
        l3 == IF hasSigmodel(a) /\ a.weight # -1
              THEN XSub(l2, smoothing(pd.d["sig"], a.weight)) ELSE l2
    IN  IF a.mix THEN mixlike(p, a, dat)
        ELSE IF pd.err # "none" THEN Fail(pd.err)
        ELSE Returned(l3)

\* array.mean()
Mean(arr) == XDiv(XSum([i \in 1..Len(arr) |-> XInt(arr[i])]), XInt(Len(arr)))

\* args.penalty * (v2m - vtm)/vtm
asymTerm(pen, v2m, vtm) == XDiv(XMul(XInt(pen), XSub(v2m, vtm)), vtm)

smoothPenalties_bisym(d, w) ==
    XAdd(XAdd(smoothing_bisym(d["vt"], w), smoothing_bisym(d["v2t"], w)),
         smoothing_bisym(d["v2r"], w))

\* smoothing(sig, args.weight * .1): the weight is a tenth of args.weight
smoothSig_bisym(sig, w) == XMul(XSum(smoothing_bisymTerms(sig)), Fin(w, 10))

loglike_bisym(p, a, dat) ==
    LET pd  == util_unpack(p, a, FALSE)
        l0  == dat.vel
        l1  == IF a.weight # -1 THEN XSub(l0, smoothPenalties_bisym(pd.d, a.weight)) ELSE l0
        l2  == IF hasSigmodel(a) THEN XSub(l1, dat.sig) ELSE l1
        l3  == IF hasSigmodel(a) /\ a.weight # -1
               THEN XSub(l2, smoothSig_bisym(pd.d["sig"], a.weight)) ELSE l2
        vtm  == Mean(pd.d["vt"])
        v2tm == Mean(pd.d["v2t"])
        v2rm == Mean(pd.d["v2r"])
        l4  == IF a.penalty # 0
               THEN XSub(XSub(l3, asymTerm(a.penalty, v2tm, vtm)),
                         asymTerm(a.penalty, v2rm, vtm))
               ELSE l3
    IN  IF pd.err # "none" THEN Fail(pd.err) ELSE Returned(l4)

----------------------------------------------------------------------------
(* The callbacks as the sampler drives them: a context and a vector are    *)
(* fixed, then one of unpack, ptform (fitting) or ptform (bisym) is        *)
(* evaluated; an unpacked dictionary may be flattened again and unpacked   *)
(* once more.                                                              *)

Edges(n) == [i \in 1..n |-> i - 1]

Zeros(n) == [i \in 1..n |-> 0]

\* smoothness weights a fit is run with: the sentinel and the default
Weights == {-1, 10}

Contexts ==
    { [nglobs |-> g, disp |-> d, mix |-> m, weight |-> w, fixcent |-> f,
       edges |-> Edges(n), hasguess |-> h, guess |-> Zeros(g + 3 * n),
       penalty |-> 100] :
        g \in {4, 6}, d \in BOOLEAN, m \in BOOLEAN, w \in Weights,
        f \in BOOLEAN, n \in 1..MaxEdges, h \in BOOLEAN }

\* lengths a vector for context a may have
VectorLens(a) ==
    { n \in 0..LayoutLen(a, Len(a.edges)) :
        \/ LayoutLen(a, Len(a.edges)) - n \in 0..MaxShort
        \/ util_LayoutLen(a) - n \in 0..MaxShort }

\* vectors whose entries are all different: entry i is base + i - 1
Tagged(n, base) == [i \in 1..n |-> base + i - 1]

\* unit-cube vectors: the two position angles free, the rest a pattern
Cube(n, base, kpa, kpab) ==
    [i \in 1..n |-> IF i = 2 THEN kpa
                    ELSE IF i = 3 THEN kpab
                    ELSE (base + i) % UnitDen]

IsCube(p) == \A i \in 1..Len(p) : p[i] \in 0..(UnitDen - 1)

Vectors(a) ==
    { Tagged(n, base) : n \in VectorLens(a), base \in 0..MaxBase }
        \cup { Cube(n, base, kpa, kpab) :
                 n \in VectorLens(a), base \in 0..MaxBase,
                 kpa \in 0..(UnitDen - 1), kpab \in 0..(UnitDen - 1) }

NoResult == [err |-> "unset", v |-> <<>>]

\* no ConvolveFFTW object: the value None
None == 0

\* a name that is not bound: reading it raises NameError / UnboundLocalError
Unbound == -1

\* no bisym_model call has been made
NoPlanes == [vel |-> "unset", sig |-> "unset"]

\* the fit variables while no fit is modelled
FitIdle ==
    /\ call = <<>> /\ fpc = "idle" /\ conv = <<>> /\ plans = 0 /\ pool = "none"
    /\ sampler = <<>> /\ done = <<>> /\ outcome = "idle" /\ evals = 0 /\ smears = <<>>
    /\ planes = NoPlanes

\* the likelihood variables while no likelihood call is modelled
LikeIdle == data = <<>> /\ llike = NoResult

\* the smoothing variables while no smoothing call is modelled
SmoothIdle == array = <<>> /\ weight = 0 /\ chisq = <<>> /\ penalty = XInt(0)

Init ==
    /\ args \in Contexts
    /\ params \in Vectors(args)
    /\ gaussprior \in BOOLEAN
    /\ pc = "ready"
    /\ paramdict = Raise("unset")
    /\ flat = NoResult
    /\ again = Raise("unset")
    /\ after = [params |-> Values(params), args |-> args]
    /\ SmoothIdle
    /\ LikeIdle
    /\ FitIdle

\* the dictionary as the locals repack reads (inc as incp, ...)
asLocals(d) ==
    LET key(n) == CASE n = "incp" -> "inc" [] n = "pap" -> "pa" [] n = "pabp" -> "pab"
                    [] n = "vsysp" -> "vsys" [] n = "xcp" -> "xc" [] n = "ycp" -> "yc"
                    [] n = "vtp" -> "vt" [] n = "v2tp" -> "v2t" [] n = "v2rp" -> "v2r"
                    [] n = "sigp" -> "sig" [] n = "Qp" -> "Q" [] n = "Mp" -> "M"
                    [] n = "lnVp" -> "lnV"
        names == {"incp", "pap", "pabp", "vsysp", "xcp", "ycp", "vtp", "v2tp", "v2rp",
                  "sigp", "Qp", "Mp", "lnVp"}
    IN  [n \in {m \in names : key(m) \in DOMAIN d} |-> d[key(n)]]

Unpack ==
    /\ pc = "ready"
    /\ paramdict' = unpack(params, args)
    /\ pc' = "unpacked"
    /\ UNCHANGED <<args, params, gaussprior, flat, again, after>>
    /\ UNCHANGED <<smvars, lkvars, fitvars>>

Repack ==
    /\ pc = "unpacked"
    /\ paramdict.err = "none"
    /\ flat' = repack(asLocals(paramdict.d), args)
    /\ pc' = "repacked"
    /\ UNCHANGED <<args, params, gaussprior, paramdict, again, after>>
    /\ UNCHANGED <<smvars, lkvars, fitvars>>

Reunpack ==
    /\ pc = "repacked"
    /\ flat.err = "none"
    /\ again' = unpack(flat.v, args)
    /\ pc' = "reunpacked"
    /\ UNCHANGED <<args, params, gaussprior, paramdict, flat, after>>
    /\ UNCHANGED <<smvars, lkvars, fitvars>>

Ptform ==
    /\ pc = "ready"
    /\ IsCube(params)
    /\ flat' = ptform(params, args, gaussprior)
    /\ after' = ptform_leaves(params, args, gaussprior)
    /\ pc' = "ptform"
    /\ UNCHANGED <<args, params, gaussprior, paramdict, again>>
    /\ UNCHANGED <<smvars, lkvars, fitvars>>

\* bisym.fit builds its context without a mixture flag, and starts the
\* sampler only when len(edges) - fixcent >= 3
PtformBisym ==
    /\ pc = "ready"
    /\ IsCube(params)
    /\ ~args.mix
    /\ Len(args.edges) - (IF args.fixcent THEN 1 ELSE 0) >= 3
    /\ flat' = ptform_bisym(params, args, gaussprior)
    /\ after' = ptform_bisym_leaves(params, args, gaussprior)
    /\ pc' = "ptform_bisym"
    /\ UNCHANGED <<args, params, gaussprior, paramdict, again>>
    /\ UNCHANGED <<smvars, lkvars, fitvars>>

Next == Unpack \/ Repack \/ Reunpack \/ Ptform \/ PtformBisym

Spec == Init /\ [][Next]_vars

----------------------------------------------------------------------------
(* Claims about the packer and the prior transform *)

FullLength == Len(params) = LayoutLen(args, Len(args.edges))

\* the blocks of a dictionary, written out in the order of the layout
BlocksInOrder(d, a) ==
    <<d["inc"], d["pa"], d["pab"], d["vsys"]>>
        \o (IF a.nglobs = 6 THEN <<d["xc"], d["yc"]>> ELSE <<>>)
        \o d["vt"] \o d["v2t"] \o d["v2r"]
        \o (IF a.disp THEN d["sig"] ELSE <<>>)
        \o (IF a.mix THEN <<d["Q"], d["M"], d["lnV"]>> ELSE <<>>)

IsTagged == \A i, j \in 1..Len(params) : i # j => params[i] # params[j]

\* C1: unpack reads the vector as consecutive blocks in the order globals,
\* vt, v2t, v2r (len(edges) entries each), sig (if disp), Q, M, lnV (if mix):
\* written one after the other the blocks are the vector itself, so each
\* block begins where the previous one ends, no index is read twice and, for
\* a vector of the layout length, none is left unread.
C1_UnpackBlocksConsecutive ==
    (pc = "unpacked" /\ FullLength) =>
        /\ paramdict.err = "none"
        /\ DOMAIN paramdict.d = unpackKeys(args)
        /\ \A k \in {"vt", "v2t", "v2r"} : Len(paramdict.d[k]) = Len(args.edges)
        /\ BlocksInOrder(paramdict.d, args) = params

C1_Witness ==
    /\ pc = "unpacked" /\ FullLength /\ IsTagged
    /\ args.nglobs = 6 /\ args.disp /\ args.mix /\ Len(args.edges) = MaxEdges

\* C2: for a vector p of the layout length, flattening unpack(p) in layout
\* order gives p again, and unpacking that gives the same dictionary.
C2_PackUnpackRoundTrip ==
    /\ (pc \in {"repacked", "reunpacked"} /\ FullLength) =>
            flat.err = "none" /\ flat.v = params
    /\ (pc = "reunpacked" /\ FullLength) =>
            again.err = "none" /\ again = paramdict

C2_Witness ==
    /\ pc = "reunpacked" /\ FullLength /\ IsTagged
    /\ args.nglobs = 6 /\ args.disp /\ args.mix /\ Len(args.edges) = MaxEdges

\* C3: for every context configuration and every input vector of the layout
\* length, ptform returns (it does not fail) a vector of the input's length.
\* Stated for fitting.ptform.
C3_PtformKeepsLength ==
    (pc = "ptform" /\ FullLength) =>
        flat.err = "none" /\ Len(flat.v) = Len(params)

\* the same statement for models/bisym.ptform
C3_BisymPtformKeepsLength ==
    (pc = "ptform_bisym" /\ Len(params) = util_LayoutLen(args)) =>
        flat.err = "none" /\ Len(flat.v) = Len(params)

\* what fitting.ptform does instead: it returns, with the input's length,
\* exactly when no truncated-Gaussian prior is asked for with a guess or a
\* fitted centre, and the mixture is not combined with the correlated prior
PtformReturnsExactlyWhen ==
    (pc = "ptform" /\ FullLength) =>
        /\ flat.err = "none" <=>
                /\ ~(gaussprior /\ args.hasguess)
                /\ ~(gaussprior /\ args.nglobs = 6)
                /\ ~(args.weight = -1 /\ args.mix)
        /\ flat.err = "none" => Len(flat.v) = Len(params)

InPeriodicRange(x) == x.k = "num" /\ 0 <= x.n /\ x.n < 360 * UnitDen

\* C4: whenever ptform returns for a unit-cube input, the position angle
\* (index 1) and the second-order position angle (index 2) lie in [0,360).
C4_AnglesInPeriodicRange ==
    (pc \in {"ptform", "ptform_bisym"} /\ flat.err = "none") =>
        InPeriodicRange(flat.v[2]) /\ InPeriodicRange(flat.v[3])

C4_Witness ==
    /\ pc = "ptform" /\ flat.err = "none"
    /\ params[2] = UnitDen - 1 /\ params[3] = UnitDen - 1
    /\ flat.v[2] = Num(360 * (UnitDen - 1))

\* the profiles ptform transforms, in the order of the layout
ProfileNames(a) == <<"vt", "v2t", "v2r">> \o (IF a.disp THEN <<"sig">> ELSE <<>>)

\* the dictionary the prior transform at pc unpacked
PtformDict ==
    IF pc = "ptform_bisym" THEN util_unpack(params, args, FALSE).d
    ELSE unpack(params, args).d

\* where profile j starts in the returned vector (0-based): after the globals
\* and the profiles before it
RECURSIVE ProfileStart(_, _, _)
ProfileStart(d, a, j) ==
    IF j = 1 THEN a.nglobs
    ELSE ProfileStart(d, a, j - 1) + Len(d[ProfileNames(a)[j - 1]])

\* profile j of the returned vector
OutProfile(v, d, a, j) ==
    PySlice(v, ProfileStart(d, a, j), ProfileStart(d, a, j) + Len(d[ProfileNames(a)[j]]))

\* a bin that is no coordinate of the sampler: the centre bin of a velocity
\* profile of models/bisym when the centre is fixed
IsFixedBin(name, i) ==
    pc = "ptform_bisym" /\ args.fixcent /\ name # "sig" /\ i = 1

\* out is the correlated transform of inp: bin N//2 is 400 times its value,
\* every other bin the inverse CDF of its own value, centred on the
\* transformed neighbour one step closer to N//2, with standard deviation 50
IsCorrelated(name, inp, out) ==
    LET N   == Len(inp)
        mid == N \div 2
    IN  /\ Len(out) = N
        /\ out[mid + 1] = Num(400 * inp[mid + 1])
        /\ \A i \in 1..N :
              (i # mid + 1 /\ ~IsFixedBin(name, i)) =>
                  out[i] = NormPpf(inp[i], out[IF i < mid + 1 THEN i + 1 ELSE i - 1], 50)

\* C13: in the correlated regime (weight == -1) each profile has bin N//2
\* drawn as 400 times its unit-cube value and every other bin as the Gaussian
\* inverse CDF of its own unit-cube value, standard deviation 50, centred on
\* the already transformed neighbour one step closer to N//2; every bin is
\* transformed exactly once.  Stated for both prior transforms.
C13_CorrelatedFromMiddle ==
    (pc \in {"ptform", "ptform_bisym"} /\ flat.err = "none" /\ args.weight = -1) =>
        \A j \in 1..Len(ProfileNames(args)) :
            IsCorrelated(ProfileNames(args)[j], PtformDict[ProfileNames(args)[j]],
                         OutProfile(flat.v, PtformDict, args, j))

\* C13 for fitting.ptform alone, whose downward loop runs to bin 0
C13_FittingCorrelatedFromMiddle ==
    pc = "ptform" => C13_CorrelatedFromMiddle

C13_FittingWitness ==
    /\ pc = "ptform" /\ flat.err = "none" /\ args.weight = -1 /\ args.disp
    /\ Len(args.edges) = 3
    /\ LET vt == OutProfile(flat.v, PtformDict, args, 1)
       IN  /\ vt[2].k = "num"
           /\ vt[1] = NormPpf(PtformDict["vt"][1], vt[2], 50)
           /\ vt[3] = NormPpf(PtformDict["vt"][3], vt[2], 50)

\* models/bisym.ptform with a fixed centre: the first dispersion bin is
\* returned as its unit-cube value, not transformed
C13_BisymFirstSigUntransformed ==
    /\ pc = "ptform_bisym" /\ flat.err = "none" /\ args.weight = -1
    /\ args.disp /\ args.fixcent
    /\ OutProfile(flat.v, PtformDict, args, 4)[1] = Num(PtformDict["sig"][1])

\* C14: ptform and loglike are pure with respect to their arguments: a call
\* changes neither the parameter vector nor any field of the context, in
\* every prior regime, the correlated regime that rewrites the profile arrays
\* element by element included.
C14_CallbacksPure ==
    (pc \in {"ptform", "ptform_bisym", "loglike", "loglike_bisym"}) =>
        after = [params |-> Values(params), args |-> args]

\* the correlated regime returned rewritten profiles and the vector is intact
C14_Witness ==
    /\ pc = "ptform" /\ args.weight = -1 /\ args.disp /\ flat.err = "none"
    /\ OutProfile(flat.v, PtformDict, args, 1)[1].k = "ppf"
    /\ after.params = Values(params)

\* C17: the dispersion block unpack reads has one entry per radial bin, plus
\* one extra entry only when the centre bin is fixed; with fixcent off its
\* length equals the length of the vt block.  fitting.unpack reads jump + 1
\* entries whatever fixcent is.
C17_SigBlockPerBin ==
    (pc = "unpacked" /\ paramdict.err = "none" /\ args.disp /\ FullLength) =>
        Len(paramdict.d["sig"]) =
            Len(paramdict.d["vt"]) + (IF args.fixcent THEN 1 ELSE 0)

\* what fitting.unpack does: the block is one entry longer than the vt block
\* in every context, as long as the vector holds that many entries
C17_SigBlockOneLonger ==
    (pc = "unpacked" /\ paramdict.err = "none" /\ args.disp /\ FullLength) =>
        Len(paramdict.d["sig"]) = Len(paramdict.d["vt"]) + 1

C17_FreeCentreWitness ==
    /\ pc = "unpacked" /\ paramdict.err = "none" /\ args.disp /\ FullLength
    /\ ~args.fixcent /\ ~args.mix /\ Len(args.edges) = 3
    /\ Len(paramdict.d["vt"]) = 3 /\ Len(paramdict.d["sig"]) = 4

----------------------------------------------------------------------------
(* The smoothness penalty on its own: an array and a weight are fixed and  *)
(* one of the two smoothing functions is evaluated.                        *)

\* array entries are an integer in -1..MaxAmp times one of these
Scales == {1, 10}

\* the non-monotonic array the penalty is tested on
ZigZag == <<10, 50, 10, 50>>

Arrays ==
    UNION { { [i \in 1..n |-> sc * e[i]] : e \in [1..n -> -1..MaxAmp], sc \in Scales } :
            n \in 1..MaxLen }
        \cup {ZigZag}

\* weights smoothing is called with: args.weight (the sentinel -1 included,
\* through mixlike), 0, and args.weight * .1 for the default weight
SmoothWeights == {-1, 0, 1, 10}

\* the callback variables while no callback is modelled
CbIdle ==
    /\ args = <<>> /\ params = <<>> /\ gaussprior = FALSE
    /\ paramdict = Raise("unset") /\ flat = NoResult /\ again = Raise("unset")
    /\ after = <<>>

InitSmooth ==
    /\ pc = "ready"
    /\ array \in Arrays
    /\ weight \in SmoothWeights
    /\ chisq = <<>>
    /\ penalty = XInt(0)
    /\ CbIdle
    /\ LikeIdle
    /\ FitIdle

Smoothing ==
    /\ pc = "ready"
    /\ chisq' = smoothingTerms(array)
    /\ penalty' = smoothing(array, weight)
    /\ pc' = "smoothing"
    /\ UNCHANGED <<array, weight, cbvars, lkvars, fitvars>>

SmoothingBisym ==
    /\ pc = "ready"
    /\ chisq' = smoothing_bisymTerms(array)
    /\ penalty' = smoothing_bisym(array, weight)
    /\ pc' = "smoothing_bisym"
    /\ UNCHANGED <<array, weight, cbvars, lkvars, fitvars>>

NextSmooth == Smoothing \/ SmoothingBisym

SpecSmooth == InitSmooth /\ [][NextSmooth]_vars

\* a perfectly linear array: at least two bins and a constant step
IsLinear(arr) ==
    /\ Len(arr) >= 2
    /\ \A i \in 1..(Len(arr) - 1) : arr[i + 1] - arr[i] = arr[2] - arr[1]

\* C7 as stated: for a perfectly linear array and any weight, smoothing under
\* the zero-pad policy returns 0.
C7_LinearPenaltyZero ==
    (pc = "smoothing" /\ IsLinear(array)) => penalty = XInt(0)

\* C7 as amended: for a perfectly linear array under the zero-pad policy every
\* interior bin contributes 0; the penalty is the weight times the terms of
\* the two edge bins, where the last bin, averaged with its own repeated
\* value, is half a step off: for [10,20,30,40] the penalty is 0.625 * weight.
C7_LinearInteriorZero ==
    (pc = "smoothing" /\ IsLinear(array)) =>
        LET n    == Len(array)
            step == array[2] - array[1]
        IN  /\ \A i \in 2..(n - 1) : chisq[i] = XInt(0)
            /\ penalty = XMul(XAdd(chisq[1], chisq[n]), XInt(weight))
            /\ array[n] # 0 => chisq[n] = Fin(step * step, 4 * Abs(array[n]))
            /\ array[1] # 0 =>
                    chisq[1] = Fin((step - array[1]) * (step - array[1]), 4 * Abs(array[1]))
            /\ array = <<10, 20, 30, 40>> => penalty = Fin(5 * weight, 8)

C7_Witness ==
    /\ pc = "smoothing" /\ array = <<10, 20, 30, 40>> /\ weight = 10
    /\ penalty = Fin(25, 4)

\* C8: for every array and every weight >= 0, both smoothing functions return
\* a finite value >= 0, every term is finite and >= 0, and a bin whose value
\* is 0 contributes exactly 0 whatever its neighbours are.
C8_PenaltyFiniteNonNegative ==
    (pc \in {"smoothing", "smoothing_bisym"} /\ weight >= 0) =>
        /\ XNonNeg(penalty)
        /\ \A i \in 1..Len(array) :
                /\ XNonNeg(chisq[i])
                /\ array[i] = 0 => chisq[i] = XInt(0)

C8_Witness ==
    /\ pc = "smoothing" /\ weight = 10
    /\ array = <<1, 0, 1>> /\ chisq[2] = XInt(0) /\ penalty = Fin(25, 2)

\* x > 0 for a finite x
XPos(x) == x.k = "fin" /\ x.n > 0

\* the array with the neighbours the function evaluated pads it with
Padded ==
    <<IF pc = "smoothing" THEN 0 ELSE array[1]>> \o array \o <<array[Len(array)]>>

\* some bin with a nonzero value differs from the average of its neighbours
OffAverage ==
    \E i \in 1..Len(array) :
        array[i] # 0 /\ 2 * array[i] # Padded[i] + Padded[i + 2]

C23_ZeroPadWitness ==
    /\ pc = "smoothing" /\ array = ZigZag /\ weight = 10
    /\ OffAverage /\ penalty = XInt(2225)

C24_ZeroFirstWitness ==
    /\ pc = "smoothing" /\ array = <<0, 2, 1>> /\ weight = 10
    /\ penalty = smoothing_bisym(array, weight) /\ XPos(penalty)

----------------------------------------------------------------------------
(* The likelihood on its own: a context, the data terms and a vector of    *)
(* finite entries are fixed, then one of the likelihoods is evaluated.     *)

\* asymmetry penalties a fit is run with: disabled and the default
Penalties == {0, 100}

LikeContexts ==
    { [nglobs |-> g, disp |-> d, mix |-> m, weight |-> w, fixcent |-> f,
       edges |-> Edges(n), hasguess |-> FALSE, guess |-> <<>>,
       penalty |-> pen] :
        g \in {4, 6}, d \in BOOLEAN, m \in BOOLEAN, w \in Weights,
        f \in BOOLEAN, n \in 1..MaxEdges, pen \in Penalties }

Const(n, c) == [i \in 1..n |-> c]

\* finite vectors: any first-order profile over -1..1, constant second-order
\* profiles and dispersions; nv velocity bins and ns dispersion bins
LikeVector(a, vt, c2, ns) ==
    <<45, 30, 10, 0>> \o (IF a.nglobs = 6 THEN <<0, 0>> ELSE <<>>)
        \o vt \o Const(Len(vt), c2) \o Const(Len(vt), c2)
        \o (IF a.disp THEN Const(ns, 1) ELSE <<>>)
        \o (IF a.mix THEN <<1, 0, 0>> ELSE <<>>)

LikeVectors(a) ==
    LET n  == Len(a.edges)
        fc == IF a.fixcent THEN 1 ELSE 0
    IN  { LikeVector(a, vt, c2, n + 1) : vt \in [1..n -> -1..1], c2 \in {0, 1} }
          \cup { LikeVector(a, vt, c2, n) : vt \in [1..(n - fc) -> -1..1], c2 \in {0, 1} }

DataTerms ==
    { [vel |-> v, sig |-> XInt(-2), mix |-> XInt(-5)] : v \in {XInt(0), Fin(-7, 2)} }

InitLike ==
    /\ pc = "ready"
    /\ args \in LikeContexts
    /\ params \in LikeVectors(args)
    /\ data \in DataTerms
    /\ llike = NoResult
    /\ gaussprior = FALSE
    /\ paramdict = Raise("unset") /\ flat = NoResult /\ again = Raise("unset")
    /\ after = [params |-> Values(params), args |-> args]
    /\ SmoothIdle
    /\ FitIdle

Loglike ==
    /\ pc = "ready"
    /\ Len(params) = LayoutLen(args, Len(args.edges))
    /\ llike' = loglike(params, args, data)
    /\ after' = loglike_leaves(params, args)
    /\ pc' = "loglike"
    /\ UNCHANGED <<args, params, gaussprior, paramdict, flat, again>>
    /\ UNCHANGED <<smvars, data, fitvars>>

LoglikeBisym ==
    /\ pc = "ready"
    /\ ~args.mix
    /\ Len(args.edges) - (IF args.fixcent THEN 1 ELSE 0) >= 3
    /\ Len(params) = util_LayoutLen(args)
    /\ llike' = loglike_bisym(params, args, data)
    /\ after' = loglike_bisym_leaves(params, args)
    /\ pc' = "loglike_bisym"
    /\ UNCHANGED <<args, params, gaussprior, paramdict, flat, again>>
    /\ UNCHANGED <<smvars, data, fitvars>>

NextLike == Loglike \/ LoglikeBisym

SpecLike == InitLike /\ [][NextLike]_vars

\* C9: for every finite parameter vector the log-likelihood returned is a
\* finite number, zero profile entries and a zero mean of vt included.
C9_LoglikeFinite ==
    (pc \in {"loglike", "loglike_bisym"}) => llike.err = "none" /\ IsFinite(llike.v)

\* fitting.loglike and mixlike, which have no asymmetry penalty, do return a
\* finite number
C9_FittingLoglikeFinite ==
    (pc = "loglike") => llike.err = "none" /\ IsFinite(llike.v)

\* the data terms of the standard likelihood: the velocity chi-square and,
\* with a dispersion model, the dispersion chi-square
StandardBase == IF hasSigmodel(args) THEN XSub(data.vel, data.sig) ELSE data.vel

\* the dictionary the likelihood at pc unpacked
LikeDict ==
    IF pc = "loglike_bisym" THEN util_unpack(params, args, FALSE).d
    ELSE unpack(params, args).d

\* the smoothness penalties of vt, v2t, v2r and, with a dispersion model, of
\* sig, as the likelihood at pc computes them
LikeSmoothness ==
    IF pc = "loglike_bisym"
    THEN XAdd(smoothPenalties_bisym(LikeDict, args.weight),
              IF hasSigmodel(args) THEN smoothSig_bisym(LikeDict["sig"], args.weight)
              ELSE XInt(0))
    ELSE XAdd(smoothPenalties(LikeDict, args.weight),
              IF hasSigmodel(args) THEN smoothing(LikeDict["sig"], args.weight)
              ELSE XInt(0))

\* the asymmetry penalty of models/bisym.loglike (none in fitting.loglike)
LikeAsymmetry ==
    IF pc = "loglike_bisym" /\ args.penalty # 0
    THEN XAdd(asymTerm(args.penalty, Mean(LikeDict["v2t"]), Mean(LikeDict["vt"])),
              asymTerm(args.penalty, Mean(LikeDict["v2r"]), Mean(LikeDict["vt"])))
    ELSE XInt(0)

\* C11: in the standard likelihood the smoothness penalties of vt, v2t, v2r
\* (and of sig with a dispersion model) are subtracted exactly when
\* weight != -1; with weight == -1 no smoothness term is subtracted.
C11_SmoothnessIffWeighted ==
    (pc \in {"loglike", "loglike_bisym"} /\ ~args.mix /\ llike.err = "none") =>
        /\ args.weight = -1 =>
                llike.v = XSub(StandardBase, LikeAsymmetry)
        /\ args.weight # -1 =>
                llike.v = XSub(XSub(StandardBase, LikeSmoothness), LikeAsymmetry)

\* weight == -1 with a profile that is not smooth: nothing is subtracted
C11_Witness ==
    /\ pc = "loglike" /\ ~args.mix /\ args.weight = -1 /\ args.disp
    /\ LikeSmoothness # XInt(0)
    /\ llike = Returned(StandardBase)

\* C12: with the mix flag set loglike returns exactly mixlike's value, and
\* mixlike subtracts the smoothness penalties of vt, v2t, v2r (and sig with a
\* dispersion model) for every weight, weight == -1 included; the subtracted
\* amount is a non-negative penalty.  With weight == -1 smoothing multiplies
\* the chi-square by -1, so the amount subtracted is negative.
C12_MixlikeSubtractsPenalty ==
    (pc = "loglike" /\ args.mix /\ llike.err = "none") =>
        /\ llike = mixlike(params, args, data)
        /\ llike.v = XSub(data.mix, LikeSmoothness)
        /\ XNonNeg(LikeSmoothness)

\* what mixlike does: the smoothing terms are subtracted for every weight and
\* carry the sign of the weight
C12_MixlikeSubtractsSigned ==
    (pc = "loglike" /\ args.mix /\ llike.err = "none") =>
        /\ llike = mixlike(params, args, data)
        /\ llike.v = XSub(data.mix, LikeSmoothness)
        /\ args.weight >= 0 => XNonNeg(LikeSmoothness)
        /\ args.weight < 0 => XNonNeg(XNeg(LikeSmoothness))

C12_NegativeWitness ==
    /\ pc = "loglike" /\ args.mix /\ args.weight = -1 /\ llike.err = "none"
    /\ ~XNonNeg(LikeSmoothness)

\* the means of the profiles the likelihood at pc unpacked
Vtm  == Mean(LikeDict["vt"])
V2tm == Mean(LikeDict["v2t"])
V2rm == Mean(LikeDict["v2r"])

\* x <= y for finite x and y
XLeq(x, y) == XNonNeg(XSub(y, x))

\* C25: the asymmetry penalty never raises the log-likelihood: when it is
\* enabled the amount subtracted is >= 0 for all profiles, and it is 0 when
\* the second-order means do not exceed the first-order mean.  Stated for a
\* positive mean of vt.
C25_AsymmetryNeverRaises ==
    (pc = "loglike_bisym" /\ args.penalty # 0 /\ llike.err = "none" /\ XPos(Vtm)) =>
        /\ XNonNeg(LikeAsymmetry)
        /\ (XLeq(V2tm, Vtm) /\ XLeq(V2rm, Vtm)) => LikeAsymmetry = XInt(0)

\* what the code subtracts: penalty * (v2tm + v2rm - 2 vtm) / vtm, which is
\* negative when the second-order means lie below the first-order mean
C25_AsymmetrySigned ==
    (pc = "loglike_bisym" /\ args.penalty # 0 /\ llike.err = "none" /\ XPos(Vtm)) =>
        /\ LikeAsymmetry =
              XDiv(XMul(XInt(args.penalty),
                        XSub(XAdd(V2tm, V2rm), XMul(XInt(2), Vtm))), Vtm)
        /\ XNonNeg(LikeAsymmetry) <=> XLeq(XMul(XInt(2), Vtm), XAdd(V2tm, V2rm))

\* second-order profiles of 0 under a first-order profile of 1: 200 is
\* added to the log-likelihood
C25_RewardWitness ==
    /\ pc = "loglike_bisym" /\ args.penalty = 100 /\ args.weight = -1 /\ ~args.disp
    /\ Vtm = XInt(1) /\ V2tm = XInt(0) /\ V2rm = XInt(0)
    /\ LikeAsymmetry = XInt(-200)
    /\ llike = Returned(XAdd(data.vel, XInt(200)))

----------------------------------------------------------------------------
(* fitting.fit and models/bisym.fit, step by step.  The collaborators      *)
(* (data access, setedges, getguess, setbounds, the sampler) are taken by  *)
(* their effect on the order of events: each step appends its name to      *)
(* done.  While the sampler runs it asks for likelihood evaluations, each  *)
(* of which evaluates bisym_model and may raise.                           *)

Methods == {"dynesty", "lsq", "emcee"}

FitCalls ==
    { [module |-> "fitting", method |-> "dynesty", cores |-> c, cen |-> cn,
       disp |-> d, mix |-> m, fixcent |-> FALSE, mock |-> mk, beam |-> b,
       nedges |-> n] :
        c \in {1, 2}, cn \in BOOLEAN, d \in BOOLEAN, m \in BOOLEAN,
        mk \in BOOLEAN, b \in BOOLEAN, n \in 1..MaxEdges }
    \cup
    { [module |-> "bisym", method |-> me, cores |-> c, cen |-> cn,
       disp |-> d, mix |-> FALSE, fixcent |-> f, mock |-> mk, beam |-> b,
       nedges |-> n] :
        me \in Methods, c \in {1, 2}, cn \in BOOLEAN, d \in BOOLEAN,
        f \in BOOLEAN, mk \in BOOLEAN, b \in BOOLEAN, n \in 1..MaxEdges }

InitFit ==
    /\ call \in FitCalls
    /\ fpc = "start"
    /\ conv = [fitting |-> Unbound, bisym |-> Unbound]
    /\ plans = 0
    /\ pool = "none"
    /\ sampler = [st |-> "none"]
    /\ done = <<>>
    /\ outcome = "running"
    /\ evals = 0
    /\ smears = <<>>
    /\ planes = NoPlanes
    /\ pc = "fit"
    /\ CbIdle /\ SmoothIdle /\ LikeIdle

Did(e) == \E i \in 1..Len(done) : done[i] = e

fixedBins(c) == IF c.fixcent THEN 1 ELSE 0

nglobsOf(c) == IF c.cen THEN 6 ELSE 4

FitFrame == UNCHANGED <<pc, cbvars, smvars, lkvars, call, planes>>

(* ---- fitting.fit ---- *)

\* plate == 0: the mock galaxy, smeared with a plan of its own; otherwise the
\* kinematics are loaded; then setnglobs, setweight, setdisp, setmix
F_Load ==
    /\ call.module = "fitting" /\ fpc = "start"
    /\ done' = done \o <<IF call.mock THEN "mock" ELSE "load", "setparams">>
    /\ plans' = IF call.mock THEN plans + 1 ELSE plans
    /\ fpc' = "setedges"
    /\ FitFrame /\ UNCHANGED <<conv, pool, sampler, outcome, evals, smears>>

F_SetEdges ==
    /\ call.module = "fitting" /\ fpc = "setedges"
    /\ done' = Append(done, "edges")
    /\ fpc' = "conv"
    /\ FitFrame /\ UNCHANGED <<conv, plans, pool, sampler, outcome, evals, smears>>

\* a slip: the plan is not made in fit but left to whoever needs it first
F_Conv_skipped ==
    /\ call.module = "fitting" /\ fpc = "conv"
    /\ fpc' = "guess"
    /\ FitFrame /\ UNCHANGED <<conv, plans, pool, sampler, done, outcome, evals, smears>>

\* global conv; conv = ConvolveFFTW(args.spatial_shape)
F_Conv ==
    /\ call.module = "fitting" /\ fpc = "conv"
    /\ plans' = plans + 1
    /\ conv' = [conv EXCEPT !.fitting = plans + 1]
    /\ done' = Append(done, "plan")
    /\ fpc' = "guess"
    /\ FitFrame /\ UNCHANGED <<pool, sampler, outcome, evals, smears>>

\* args.clip(); theta0 = args.getguess(); ndim
F_Guess ==
    /\ call.module = "fitting" /\ fpc = "guess"
    /\ done' = Append(done, "guess")
    /\ fpc' = "pool"
    /\ FitFrame /\ UNCHANGED <<conv, plans, pool, sampler, outcome, evals, smears>>

\* a slip: the pool is opened whatever cores is
F_Pool_always ==
    /\ call.module = "fitting" /\ fpc = "pool"
    /\ pool' = "open"
    /\ done' = Append(done, "pool")
    /\ fpc' = "sampler"
    /\ FitFrame /\ UNCHANGED <<conv, plans, sampler, outcome, evals, smears>>

\* if cores > 1: pool = mp.Pool(cores) else: pool = None
F_Pool ==
    /\ call.module = "fitting" /\ fpc = "pool"
    /\ pool' = IF call.cores > 1 THEN "open" ELSE "none"
    /\ done' = IF call.cores > 1 THEN Append(done, "pool") ELSE done
    /\ fpc' = "sampler"
    /\ FitFrame /\ UNCHANGED <<conv, plans, sampler, outcome, evals, smears>>

\* ndim = len(theta0) (+ nbin if disp) (+ 3 if mix), theta0 holding the globals
\* and three velocity blocks
F_ndim(c) ==
    nglobsOf(c) + 3 * c.nedges + (IF c.disp THEN c.nedges ELSE 0)
        + (IF c.mix THEN 3 ELSE 0)

F_Sampler ==
    /\ call.module = "fitting" /\ fpc = "sampler"
    /\ sampler' = [st |-> "running", kind |-> "dynesty", ndim |-> F_ndim(call),
                   logl |-> "loglike", prior |-> "ptform", nlive |-> "points",
                   context |-> "args", periodic |-> <<1, 2>>, pool |-> pool]
    /\ done' = Append(done, "sampler")
    /\ fpc' = "running"
    /\ FitFrame /\ UNCHANGED <<conv, plans, pool, outcome, evals, smears>>

\* the value of the name conv at bisym_model's smear call.  The function
\* assigns conv (except: conv = None), so conv is a local of bisym_model:
\* "try: conv" reads the unbound local, which raises, and the handler binds
\* the local to None.  The module global is never read.
bisym_model_conv(global) ==
    LET local == Unbound
    IN  IF local = Unbound THEN None ELSE local

\* a slip: smear is called whether or not there is a beam
bisym_model_smearsAlways(c, global) ==
    [calls |-> <<bisym_model_conv(global)>>,
     vel   |-> "smeared velmodel",
     sig   |-> IF c.disp THEN "smeared sigmodel" ELSE "None"]

\* fitting.bisym_model from the model planes on: velmodel, and sigmodel or
\* None without a dispersion profile; "if args.beam_fft is not None" they
\* are replaced by what smear returns; the planes then go to the masks and
\* to args.bin.  calls holds the cnvfftw argument of the smear call.
bisym_model(c, global) ==
    LET velmodel == "velmodel"
        sigmodel == IF c.disp THEN "sigmodel" ELSE "None"
    IN  IF c.beam
        THEN [calls |-> <<bisym_model_conv(global)>>,
              vel   |-> "smeared velmodel",
              sig   |-> IF c.disp THEN "smeared sigmodel" ELSE "None"]
        ELSE [calls |-> <<>>, vel |-> velmodel, sig |-> sigmodel]

\* one likelihood evaluation: loglike -> bisym_model -> smear (when beam_fft
\* is not None)
F_Eval ==
    /\ call.module = "fitting" /\ fpc = "running"
    /\ evals < MaxEvals
    /\ evals' = evals + 1
    /\ smears' = smears \o bisym_model(call, conv.fitting).calls
    /\ planes' = [vel |-> bisym_model(call, conv.fitting).vel,
                  sig |-> bisym_model(call, conv.fitting).sig]
    /\ UNCHANGED <<pc, cbvars, smvars, lkvars, call>>
    /\ UNCHANGED <<fpc, conv, plans, pool, sampler, done, outcome>>

\* a slip: the exception of the likelihood is caught around run_nested and
\* the sampler is returned as it is
F_EvalRaises_caught ==
    /\ call.module = "fitting" /\ fpc = "running"
    /\ evals < MaxEvals
    /\ evals' = evals + 1
    /\ done' = Append(done, "raised")
    /\ sampler' = [sampler EXCEPT !.st = "finished"]
    /\ outcome' = "returned"
    /\ fpc' = "left"
    /\ FitFrame /\ UNCHANGED <<conv, plans, pool, smears>>

\* a likelihood evaluation raises: nothing in fit catches it, the exception
\* leaves run_nested and fit, and the lines after run_nested are not reached
F_EvalRaises ==
    /\ call.module = "fitting" /\ fpc = "running"
    /\ evals < MaxEvals
    /\ evals' = evals + 1
    /\ done' = Append(done, "raised")
    /\ outcome' = "LikelihoodError"
    /\ fpc' = "left"
    /\ FitFrame /\ UNCHANGED <<conv, plans, pool, sampler, smears>>

\* run_nested returns; if pool is not None: pool.close(); return sampler
F_Finish ==
    /\ call.module = "fitting" /\ fpc = "running"
    /\ sampler' = [sampler EXCEPT !.st = "finished"]
    /\ pool' = IF pool # "none" THEN "closed" ELSE pool
    /\ outcome' = "returned"
    /\ fpc' = "left"
    /\ FitFrame /\ UNCHANGED <<conv, plans, done, evals, smears>>

(* ---- models/bisym.fit ---- *)

\* mock: the velocity field is synthesised; otherwise the kinematics are
\* loaded and FitArgs is built
B_Load ==
    /\ call.module = "bisym" /\ fpc = "start"
    /\ done' = done \o <<IF call.mock THEN "mock" ELSE "load">>
    /\ fpc' = "setedges"
    /\ FitFrame /\ UNCHANGED <<conv, plans, pool, sampler, outcome, evals, smears>>

B_SetEdges ==
    /\ call.module = "bisym" /\ fpc = "setedges"
    /\ done' = Append(done, "edges")
    /\ fpc' = "checkbins"
    /\ FitFrame /\ UNCHANGED <<conv, plans, pool, sampler, outcome, evals, smears>>

\* if len(args.edges) - fixcent < 3: raise ValueError
B_CheckBins ==
    /\ call.module = "bisym" /\ fpc = "checkbins"
    /\ IF call.nedges - fixedBins(call) < 3
       THEN outcome' = "ValueError" /\ fpc' = "left"
       ELSE outcome' = outcome /\ fpc' = "conv"
    /\ FitFrame /\ UNCHANGED <<conv, plans, pool, sampler, done, evals, smears>>

B_Conv ==
    /\ call.module = "bisym" /\ fpc = "conv"
    /\ plans' = plans + 1
    /\ conv' = [conv EXCEPT !.bisym = plans + 1]
    /\ done' = Append(done, "plan")
    /\ fpc' = "guess"
    /\ FitFrame /\ UNCHANGED <<pool, sampler, outcome, evals, smears>>

\* args.clip(); theta0 = args.getguess(); ndim; args.setnbins(nbin)
B_Guess ==
    /\ call.module = "bisym" /\ fpc = "guess"
    /\ done' = Append(done, "guess")
    /\ fpc' = "bounds"
    /\ FitFrame /\ UNCHANGED <<conv, plans, pool, sampler, outcome, evals, smears>>

\* args.setbounds(incpad=3, incgauss=True); args.getasym()
B_Bounds ==
    /\ call.module = "bisym" /\ fpc = "bounds"
    /\ done' = Append(done, "bounds")
    /\ fpc' = "pool"
    /\ FitFrame /\ UNCHANGED <<conv, plans, pool, sampler, outcome, evals, smears>>

B_Pool ==
    /\ call.module = "bisym" /\ fpc = "pool"
    /\ pool' = IF call.cores > 1 /\ call.method = "dynesty" THEN "open" ELSE "none"
    /\ done' = IF call.cores > 1 /\ call.method = "dynesty"
               THEN Append(done, "pool") ELSE done
    /\ fpc' = "method"
    /\ FitFrame /\ UNCHANGED <<conv, plans, sampler, outcome, evals, smears>>

\* ndim = len(theta0) (+ nbin + fixcent if disp), theta0 holding the globals
\* and three blocks of free bins
B_ndim(c) ==
    nglobsOf(c) + 3 * (c.nedges - fixedBins(c)) + (IF c.disp THEN c.nedges ELSE 0)

\* the planes nirvana.models.higher_order.bisym_model returns: the velocity
\* model, and the dispersion model or None without a dispersion profile
higher_order_bisym_model(c) ==
    [vel |-> "velmodel", sig |-> IF c.disp THEN "sigmodel" ELSE "None"]

\* the residual function of the least-squares path:
\*   velmodel, sigmodel = bisym_model(args, unpack(params, args))
\*   sigchisq = (sigmodel - args.kin.sig)**2 * args.kin.sig_ivar
\* the subtraction is evaluated whatever sigmodel is; None - array raises
\* TypeError
minfunc(c) ==
    LET sigmodel == higher_order_bisym_model(c).sig
    IN  IF sigmodel = "None" THEN Raise("TypeError") ELSE Ok("velchisq + sigchisq")

\* optimize.least_squares(minfunc, x0=lsqguess, ...): the solver evaluates
\* minfunc at x0 before anything else; an exception of minfunc leaves the
\* solver and fit, and sampler is never assigned
B_Lsq ==
    /\ call.module = "bisym" /\ fpc = "method"
    /\ call.method = "lsq"
    /\ IF minfunc(call).err = "none"
       THEN /\ sampler' = [st |-> "finished", kind |-> "lsq", ndim |-> B_ndim(call),
                           logl |-> "minfunc", prior |-> "bounds", nlive |-> "none",
                           context |-> "args", periodic |-> <<>>, pool |-> pool]
            /\ done' = Append(done, "solver")
            /\ outcome' = "returned"
       ELSE /\ sampler' = sampler
            /\ done' = done \o <<"solver", "minfunc raised">>
            /\ outcome' = minfunc(call).err
    /\ fpc' = "left"
    /\ FitFrame /\ UNCHANGED <<conv, plans, pool, evals, smears>>

B_Sampler ==
    /\ call.module = "bisym" /\ fpc = "method"
    /\ call.method = "dynesty"
    /\ sampler' = [st |-> "running", kind |-> "dynesty", ndim |-> B_ndim(call),
                   logl |-> "loglike", prior |-> "ptform", nlive |-> "points",
                   context |-> "args", periodic |-> <<1, 2>>, pool |-> pool]
    /\ done' = Append(done, "sampler")
    /\ fpc' = "running"
    /\ FitFrame /\ UNCHANGED <<conv, plans, pool, outcome, evals, smears>>

\* else: raise ValueError('Choose a valid fitting method: dynesty or lsq')
B_BadMethod ==
    /\ call.module = "bisym" /\ fpc = "method"
    /\ call.method \notin {"lsq", "dynesty"}
    /\ outcome' = "ValueError"
    /\ fpc' = "left"
    /\ FitFrame /\ UNCHANGED <<conv, plans, pool, sampler, done, evals, smears>>

\* one likelihood evaluation of bisym.loglike
B_Eval ==
    /\ call.module = "bisym" /\ fpc = "running"
    /\ evals < MaxEvals
    /\ evals' = evals + 1
    /\ FitFrame /\ UNCHANGED <<fpc, conv, plans, pool, sampler, done, outcome, smears>>

B_EvalRaises ==
    /\ call.module = "bisym" /\ fpc = "running"
    /\ evals < MaxEvals
    /\ evals' = evals + 1
    /\ done' = Append(done, "raised")
    /\ outcome' = "LikelihoodError"
    /\ fpc' = "left"
    /\ FitFrame /\ UNCHANGED <<conv, plans, pool, sampler, smears>>

\* run_nested returns; if pool is not None: pool.close(); return sampler, args
B_Finish ==
    /\ call.module = "bisym" /\ fpc = "running"
    /\ sampler' = [sampler EXCEPT !.st = "finished"]
    /\ pool' = IF pool # "none" THEN "closed" ELSE pool
    /\ outcome' = "returned"
    /\ fpc' = "left"
    /\ FitFrame /\ UNCHANGED <<conv, plans, done, evals, smears>>

NextFit ==
    \/ F_Load \/ F_SetEdges \/ F_Conv \/ F_Guess \/ F_Pool \/ F_Sampler
    \/ F_Eval \/ F_EvalRaises \/ F_Finish
    \/ B_Load \/ B_SetEdges \/ B_CheckBins \/ B_Conv \/ B_Guess \/ B_Bounds
    \/ B_Pool \/ B_Lsq \/ B_Sampler \/ B_BadMethod
    \/ B_Eval \/ B_EvalRaises \/ B_Finish

SpecFit == InitFit /\ [][NextFit]_vars

ValidMethod(c) == c.method \in {"dynesty", "lsq"}

TooFewBins(c) == c.nedges - fixedBins(c) < 3

\* C5: fit raises ValueError whenever len(edges) - fixcent < 3, before the
\* convolution plan, the worker pool or the sampler/solver is created; with
\* len(edges) - fixcent >= 3 the check does not raise.  As stated for both
\* fit functions: fitting.fit has no such check and goes on to the plan, the
\* pool and the sampler.
C5_TooFewBinsRaisesFirst ==
    /\ TooFewBins(call) =>
        /\ ~Did("plan") /\ plans = (IF call.module = "fitting" /\ Did("mock") THEN 1 ELSE 0)
        /\ pool = "none"
        /\ sampler.st = "none"
        /\ fpc = "left" => outcome = "ValueError"
    /\ (~TooFewBins(call) /\ ValidMethod(call)) => outcome # "ValueError"

\* C5 for models/bisym.fit alone, where the check exists
C5_BisymTooFewBinsRaisesFirst ==
    call.module = "bisym" => C5_TooFewBinsRaisesFirst

C5_BisymWitness ==
    /\ call.module = "bisym" /\ TooFewBins(call)
    /\ Did("edges") /\ fpc = "left" /\ outcome = "ValueError"

\* C6: with a method other than 'dynesty' or 'lsq', fit raises ValueError
\* before any other step is performed: no data is loaded, no edges, plan,
\* guess or bounds are computed, no pool is opened, no sampler or solver is
\* started.  models/bisym.fit tests the method last.
C6_BadMethodRaisesImmediately ==
    ~ValidMethod(call) =>
        /\ done = <<>>
        /\ plans = 0
        /\ pool = "none"
        /\ sampler.st = "none"

\* what models/bisym.fit does guarantee for an invalid method: the call ends
\* in ValueError, and neither a pool nor a sampler or solver is created
C6_BadMethodNoPoolNoSampler ==
    ~ValidMethod(call) =>
        /\ pool = "none"
        /\ sampler.st = "none"
        /\ ~Did("solver")
        /\ fpc = "left" => outcome = "ValueError"

C6_BadMethodWitness ==
    /\ ~ValidMethod(call) /\ ~TooFewBins(call)
    /\ fpc = "left" /\ outcome = "ValueError"
    /\ Did("plan") /\ Did("bounds")

\* C10: once fit has stored the plan in the module global conv, every
\* bisym_model call that smears passes that plan to smear as cnvfftw.  In
\* fitting.py the name conv is local to bisym_model, so smear gets None.
C10_PlanReusedBySmear ==
    \A i \in 1..Len(smears) :
        /\ conv.fitting # Unbound
        /\ smears[i] = conv.fitting

\* what fitting.bisym_model does: the plan of fit exists, and smear is
\* handed None on every call
C10_SmearGetsNone ==
    \A i \in 1..Len(smears) :
        /\ conv.fitting \in 1..plans
        /\ smears[i] = None

C10_SmearWitness ==
    /\ call.module = "fitting" /\ call.beam
    /\ Len(smears) = MaxEvals

\* C15: if a likelihood evaluation raises while the sampler is running, the
\* exception propagates out of fit: fit does not catch it, returns no sampler
\* or result object and produces no partial result.
C15_LikelihoodErrorPropagates ==
    Did("raised") =>
        /\ fpc = "left"
        /\ outcome = "LikelihoodError"
        /\ sampler.st = "running"
        /\ done[Len(done)] = "raised"

C15_Witness ==
    /\ call.module = "fitting" /\ call.cores = 2
    /\ Did("raised") /\ evals = MaxEvals /\ outcome = "LikelihoodError"

----------------------------------------------------------------------------
(* plotting.fileprep on a sampler file, with plotting.profs: the medians   *)
(* of the posterior (params here) are given names again.  plotting.py      *)
(* imports unpack from nirvana.fitting.  setedges is a method of the       *)
(* context that is not part of the sources at hand: with nbin=True it      *)
(* makes one more edge than the number it is given, which is what          *)
(* fileprep (nbins - 1 + fixcent) and models/bisym.fit (len(edges) -       *)
(* fixcent free bins) rely on, and a negative count is a ValueError.       *)

setedges(a, n) ==
    IF n < 0 THEN Raise("ValueError") ELSE Ok([a EXCEPT !.edges = Edges(n + 1)])

\* the parameters profs reads a bound for with stds=True (disp is on)
stdNames(a) ==
    {"inc", "pa", "pab", "vsys", "vt", "v2t", "v2r", "sig"}
        \cup (IF a.nglobs = 6 THEN {"xc", "yc"} ELSE {})

\* the entries profs reads from lstd or ustd; a NumPy slice never fails
profsStds(std, a) ==
    LET start == a.nglobs
        jump  == Len(a.edges) - (IF a.fixcent THEN 1 ELSE 0)
        zero  == IF a.fixcent THEN <<0>> ELSE <<>>
    IN  [k \in stdNames(a) |->
            CASE k = "inc"  -> std[1]
              [] k = "pa"   -> std[2]
              [] k = "pab"  -> std[3]
              [] k = "vsys" -> std[4]
              [] k = "xc"   -> std[5]
              [] k = "yc"   -> std[6]
              [] k = "vt"   -> zero \o PySlice(std, start, start + jump)
              [] k = "v2t"  -> zero \o PySlice(std, start + jump, start + 2 * jump)
              [] k = "v2r"  -> zero \o PySlice(std, start + 2 * jump, start + 3 * jump)
              [] k = "sig"  -> PySlice(std, start + 3 * jump, start + 3 * jump + jump + 1)]

\* profs(chains, args, stds=True): the medians through unpack, then the
\* bounds; result is [err, d, l]: the dictionary of medians and the lower
\* bounds (the upper bounds are read the same way)
profs(meds, a) ==
    LET pd == unpack(meds, a)
    IN  IF pd.err # "none" THEN [err |-> pd.err, d |-> <<>>, l |-> <<>>]
        ELSE [err |-> "none", d |-> pd.d, l |-> profsStds(meds, a)]

\* nbins = (len(meds) - nglobs - 3*mix - fixcent)/4; not an integer:
\* ValueError; else setedges(nbins - 1 + fixcent, nbin=True) and profs
fileprep(meds, a) ==
    LET fixed == IF a.fixcent THEN 1 ELSE 0
        num   == Len(meds) - a.nglobs - 3 * (IF a.mix THEN 1 ELSE 0) - fixed
        nbins == num \div 4
        e     == setedges(a, nbins - 1 + fixed)
    IN  IF num % 4 # 0 THEN [err |-> "ValueError", d |-> <<>>, l |-> <<>>, args |-> a]
        ELSE IF e.err # "none" THEN [err |-> e.err, d |-> <<>>, l |-> <<>>, args |-> a]
        ELSE [args |-> e.d] @@ profs(meds, e.d)

\* fileprep sets disp on, nglobs from cen, mix and fixcent from its arguments
PrepContexts ==
    { [nglobs |-> g, disp |-> TRUE, mix |-> m, weight |-> 10, fixcent |-> f,
       edges |-> <<>>, hasguess |-> FALSE, guess |-> <<>>, penalty |-> 100] :
        g \in {4, 6}, m \in BOOLEAN, f \in BOOLEAN }

InitPrep ==
    /\ pc = "ready"
    /\ args \in PrepContexts
    /\ params \in { Tagged(n, 1) : n \in 0..MaxPost }
    /\ gaussprior = FALSE
    /\ paramdict = Raise("unset") /\ flat = NoResult /\ again = Raise("unset")
    /\ after = <<>>
    /\ SmoothIdle /\ LikeIdle /\ FitIdle

Fileprep ==
    /\ pc = "ready"
    /\ paramdict' = fileprep(params, args)
    /\ args' = paramdict'.args
    /\ pc' = "fileprep"
    /\ UNCHANGED <<params, gaussprior, flat, again, after>>
    /\ UNCHANGED <<smvars, lkvars, fitvars>>

NextPrep == Fileprep

SpecPrep == InitPrep /\ [][NextPrep]_vars

\* the free bins per velocity profile that a vector of this length holds
FreeBins(meds, a) ==
    (Len(meds) - a.nglobs - (IF a.mix THEN 3 ELSE 0) - (IF a.fixcent THEN 1 ELSE 0)) \div 4

\* the entries of the dictionary that come from the vector, in the order of
\* the layout; the 0 written in for a fixed centre bin is no entry of it
Attributed(d, a) ==
    LET free(k) == IF a.fixcent /\ Len(d[k]) > 0 /\ d[k][1] = 0 THEN Tail(d[k]) ELSE d[k]
    IN  <<d["inc"], d["pa"], d["pab"], d["vsys"]>>
            \o (IF a.nglobs = 6 THEN <<d["xc"], d["yc"]>> ELSE <<>>)
            \o free("vt") \o free("v2t") \o free("v2r") \o d["sig"]
            \o (IF a.mix THEN <<d["Q"], d["M"], d["lnV"]>> ELSE <<>>)

\* the dictionary follows the layout of the flags: the three velocity
\* profiles hold the free bins each, sig one entry more with a fixed centre,
\* and every entry of the vector is given to one parameter, in order
FollowsLayout(d, meds, a) ==
    LET j == FreeBins(meds, a)
        free(k) == IF a.fixcent /\ d[k][1] = 0 THEN Tail(d[k]) ELSE d[k]
    IN  /\ \A k \in {"vt", "v2t", "v2r"} :
              Len(d[k]) > 0 /\ Len(free(k)) = j
        /\ Len(d["sig"]) = j + (IF a.fixcent THEN 1 ELSE 0)
        /\ Attributed(d, a) = meds

\* C16: for every length of the posterior vector, either fileprep raises
\* ValueError before any parameter is attributed, or the dictionary gives
\* each entry to exactly one parameter of the layout implied by nglobs,
\* fixcent and mix; no other length is accepted silently.  Stated for the
\* vectors long enough to hold a bin per profile.
C16_MalformedShapeRaises ==
    (pc = "fileprep" /\ FreeBins(params, args) >= 1) =>
        \/ paramdict.err = "ValueError"
        \/ paramdict.err = "none" /\ FollowsLayout(paramdict.d, params, args)

\* with a free centre and no mixture the medians are attributed by the layout
C16_FreeCentreAttributed ==
    (pc = "fileprep" /\ ~args.fixcent /\ ~args.mix /\ Len(params) > args.nglobs) =>
        \/ paramdict.err = "ValueError"
        \/ paramdict.err = "none" /\ FollowsLayout(paramdict.d, params, args)

\* a fixed centre: the vector is accepted and vt is given the first entry of
\* the v2t block as well
C16_FixedCentreMisattributed ==
    /\ pc = "fileprep" /\ args.fixcent /\ ~args.mix /\ paramdict.err = "none"
    /\ FreeBins(params, args) = 3
    /\ Len(paramdict.d["vt"]) = 4
    /\ paramdict.d["vt"][4] = params[args.nglobs + 4]
    /\ paramdict.d["v2t"][1] = params[args.nglobs + 5]

\* the mixture: a vector of the right length leaves profs with IndexError
C16_MixtureIndexError ==
    /\ pc = "fileprep" /\ args.mix /\ FreeBins(params, args) = 3
    /\ (Len(params) - args.nglobs - 3 - (IF args.fixcent THEN 1 ELSE 0)) % 4 = 0
    /\ paramdict.err = "IndexError"

\* the entries of a profile that were read from the vector: the 0 written in
\* for a fixed centre bin is not one of them
ReadFrom(prof, a) ==
    IF a.fixcent /\ Len(prof) > 0 /\ prof[1] = 0 THEN Tail(prof) ELSE prof

\* C26: in profs(stds=True), for each of vt, v2t and v2r the median array
\* and its bound arrays are read from the same index range of the posterior
\* vector and have the same length, the number of bins, with a fixed centre
\* (where a 0 is inserted for the centre bin) and with a free one.  The
\* medians and the bounds are read here from the same tagged vector, so the
\* same range means the same entries.
C26_BoundsAlignedWithMedians ==
    (pc = "fileprep" /\ paramdict.err = "none" /\ FreeBins(params, args) >= 1) =>
        \A k \in {"vt", "v2t", "v2r"} :
            /\ Len(paramdict.d[k]) = Len(args.edges)
            /\ Len(paramdict.l[k]) = Len(args.edges)
            /\ ReadFrom(paramdict.d[k], args) = ReadFrom(paramdict.l[k], args)

\* with a free centre the medians and the bounds are the same entries
C26_FreeCentreAligned ==
    (pc = "fileprep" /\ paramdict.err = "none" /\ FreeBins(params, args) >= 1
        /\ ~args.fixcent) =>
        \A k \in {"vt", "v2t", "v2r"} :
            /\ Len(paramdict.d[k]) = Len(args.edges)
            /\ Len(paramdict.l[k]) = Len(args.edges)
            /\ paramdict.d[k] = paramdict.l[k]

C26_FreeCentreWitness ==
    /\ pc = "fileprep" /\ paramdict.err = "none" /\ ~args.fixcent
    /\ FreeBins(params, args) = 3 /\ args.nglobs = 4
    /\ paramdict.d["v2r"] = <<11, 12, 13>> /\ paramdict.l["v2r"] = <<11, 12, 13>>

\* a fixed centre and three free bins: the bounds of v2t are the 0 and
\* entries 8..10, its medians are entries 9..12
C26_FixedCentreShifted ==
    /\ pc = "fileprep" /\ paramdict.err = "none" /\ args.fixcent
    /\ FreeBins(params, args) = 3 /\ args.nglobs = 4
    /\ paramdict.l["v2t"] = <<0, 8, 9, 10>>
    /\ paramdict.d["v2t"] = <<9, 10, 11, 12>>

----------------------------------------------------------------------------
(* Claims about what fit hands to the sampler *)

\* the context fit builds from its arguments
CallContext ==
    [nglobs |-> nglobsOf(call), disp |-> call.disp, mix |-> call.mix, weight |-> 10,
     fixcent |-> call.fixcent, edges |-> Edges(call.nedges), hasguess |-> FALSE,
     guess |-> <<>>, penalty |-> 100]

\* the number of vector entries the unpack of the fit's module reads
EntriesRead ==
    IF call.module = "fitting" THEN LayoutLen(CallContext, Len(CallContext.edges))
    ELSE util_LayoutLen(CallContext)

\* C18: the number of dimensions fit hands to the sampler equals the number
\* of vector entries unpack reads for the same context, so that no sampler
\* coordinate is left unread and none is read past the end.  fitting.fit adds
\* nbin dimensions for the dispersion, fitting.unpack reads nbin + 1.
C18_NdimMatchesLayout ==
    (sampler.st # "none") => sampler.ndim = EntriesRead

\* what holds in fitting.py: ndim is the number of entries read without a
\* dispersion profile and one short of it with one
C18_FittingNdimOneShort ==
    (call.module = "fitting" /\ sampler.st # "none") =>
        sampler.ndim = EntriesRead - (IF call.disp THEN 1 ELSE 0)

C18_DispWitness ==
    /\ call.module = "fitting" /\ call.disp /\ call.mix /\ call.nedges = 3
    /\ sampler.st = "running" /\ sampler.ndim = EntriesRead - 1

\* the steps of fit that come after the pool is opened or left out
PastPool == fpc \in {"sampler", "method", "running"} \/ (fpc = "left" /\ Did("guess"))

\* the sampler a call with the same arguments but cores = 1 constructs
SerialSampler(c) ==
    [st |-> "running", kind |-> "dynesty",
     ndim |-> IF c.module = "fitting" THEN F_ndim([c EXCEPT !.cores = 1])
              ELSE B_ndim([c EXCEPT !.cores = 1]),
     logl |-> "loglike", prior |-> "ptform", nlive |-> "points",
     context |-> "args", periodic |-> <<1, 2>>, pool |-> "none"]

\* C19: fit opens a worker pool iff cores > 1 and the method is nested
\* sampling; with cores <= 1 the sampler receives pool=None, and apart from
\* the pool the sampler is constructed with the same arguments (loglike,
\* ptform, ndim, nlive, periodic [1,2], context) as in the parallel case.
C19_PoolIffParallelNested ==
    /\ PastPool => (Did("pool") <=> (call.cores > 1 /\ call.method = "dynesty"))
    /\ ~PastPool => ~Did("pool") /\ pool = "none"
    /\ (sampler.st = "running") =>
          /\ sampler.pool = (IF call.cores > 1 THEN "open" ELSE "none")
          /\ [sampler EXCEPT !.pool = "none"] = SerialSampler(call)

C19_SerialWitness ==
    /\ call.cores = 1 /\ sampler.st = "running" /\ sampler.pool = "none"
    /\ pool = "none" /\ ~Did("pool") /\ sampler.periodic = <<1, 2>>

\* C20: when the beam kernel (beam_fft) is None, bisym_model never calls
\* smear, and the velocity and dispersion models that reach masking and
\* binning are exactly the unsmeared model planes.
C20_NoBeamNoSmear ==
    (call.module = "fitting" /\ ~call.beam) =>
        /\ smears = <<>>
        /\ evals > 0 /\ planes # NoPlanes =>
              planes = [vel |-> "velmodel",
                        sig |-> IF call.disp THEN "sigmodel" ELSE "None"]

C20_Witness ==
    /\ call.module = "fitting" /\ ~call.beam /\ call.disp
    /\ evals = MaxEvals /\ smears = <<>>
    /\ planes = [vel |-> "velmodel", sig |-> "sigmodel"]

----------------------------------------------------------------------------
(* What bisym_model returns and what its callers make of it.
   A Python iterable is carried as [kind, items]: a tuple by its elements,
   a 2D array by its rows. *)

MaxRows == 3

Tuple(items) == [kind |-> "tuple", items |-> items]

\* a masked array: the plane it holds and the mask it carries
Masked(name, mask) == [of |-> name, mask |-> mask]

\* the rows of a 2D masked array, as iterating over it yields them
Array2D(plane, nrows) ==
    [kind |-> "array",
     items |-> [i \in 1..nrows |-> [of |-> plane.of, mask |-> plane.mask, row |-> i - 1]]]

\* fitting.bisym_model from the rebinning on: binvel under args.vel_mask,
\* and binsig under args.sig_mask or None; with plot the planes are
\* remapped to the grid and the function returns (velremap, sigremap) when
\* there is a dispersion model and the array velremap alone when there is
\* none; without plot (binvel, binsig)
bisym_model_returns(a, plot) ==
    LET sigmodel == bisym_model(a, None).sig
        binvel   == Masked("binvel", IF a.velmask THEN "vel_mask" ELSE "None")
        binsig   == IF sigmodel # "None"
                    THEN Masked("binsig", IF a.sigmask THEN "sig_mask" ELSE "None")
                    ELSE "None"
    IN  IF plot
        THEN IF sigmodel # "None"
             THEN Tuple(<<[binvel EXCEPT !.of = "velremap"],
                          [binsig EXCEPT !.of = "sigremap"]>>)
             ELSE Array2D([binvel EXCEPT !.of = "velremap"], a.rows)
        ELSE Tuple(<<binvel, binsig>>)

\* "velmodel, sigmodel = ..." : the right-hand side is iterated and must
\* yield two items
UnpackTwo(v) ==
    IF Len(v.items) = 2
    THEN Ok([velmodel |-> v.items[1], sigmodel |-> v.items[2]])
    ELSE Raise("ValueError")

\* the contexts bisym_model is called with: a dispersion profile or none, a
\* beam or none, a velocity mask or none, a dispersion mask or none (none
\* without dispersions), and the number of rows of the grid remap fills
ModelContexts ==
    { [disp |-> d, beam |-> b, velmask |-> vm, sigmask |-> d /\ sm, rows |-> r] :
        d \in BOOLEAN, b \in BOOLEAN, vm \in BOOLEAN, sm \in BOOLEAN,
        r \in 1..MaxRows }

\* loglike calls with plot=False, summaryplot and extractfile with plot=True
Callers == {"loglike", "summaryplot", "extractfile"}

InitModel ==
    /\ pc \in Callers
    /\ args \in ModelContexts
    /\ params = <<>> /\ gaussprior = FALSE
    /\ paramdict = Raise("unset") /\ flat = NoResult /\ again = Raise("unset")
    /\ after = <<>>
    /\ SmoothIdle /\ LikeIdle /\ FitIdle

\* velmodel, sigmodel = bisym_model(args, paramdict): paramdict' holds what
\* bisym_model returned and again' what the caller's two names are bound to
BisymModel ==
    /\ pc = "loglike"
    /\ paramdict' = bisym_model_returns(args, FALSE)
    /\ again' = UnpackTwo(paramdict')
    /\ pc' = "called"
    /\ UNCHANGED <<args, params, gaussprior, flat, after>>
    /\ UNCHANGED <<smvars, lkvars, fitvars>>

\* velmodel, sigmodel = bisym_model(args, resdict, plot=True)
BisymModelPlot ==
    /\ pc \in {"summaryplot", "extractfile"}
    /\ paramdict' = bisym_model_returns(args, TRUE)
    /\ again' = UnpackTwo(paramdict')
    /\ pc' = "plotted"
    /\ UNCHANGED <<args, params, gaussprior, flat, after>>
    /\ UNCHANGED <<smvars, lkvars, fitvars>>

NextModel == BisymModel \/ BisymModelPlot

SpecModel == InitModel /\ [][NextModel]_vars

IsPair(v) == v.kind = "tuple" /\ Len(v.items) = 2

\* C21: bisym_model always returns a pair (velocity model, dispersion
\* model) whose second element is None when args.disp is false, in the
\* per-bin mode and in the plot=True mode alike, so that a caller can
\* always unpack two values.
C21_AlwaysReturnsPair ==
    (pc \in {"called", "plotted"}) =>
        /\ IsPair(paramdict)
        /\ ~args.disp => paramdict.items[2] = "None"
        /\ again.err = "none"

\* what holds: the per-bin mode returns such a pair, and so does the
\* plotting mode with a dispersion profile
C21_PairUnlessPlotWithoutDisp ==
    (pc = "called" \/ (pc = "plotted" /\ args.disp)) =>
        /\ IsPair(paramdict)
        /\ ~args.disp => paramdict.items[2] = "None"
        /\ again.err = "none"

\* plot=True without a dispersion profile: the array comes back alone and
\* the caller's unpacking raises
C21_PlotCallerRaises ==
    /\ pc = "plotted" /\ ~args.disp /\ args.rows = 3
    /\ paramdict.kind = "array" /\ again.err = "ValueError"

\* on a grid of two rows the unpacking succeeds and binds the two rows of
\* the velocity map to velmodel and sigmodel
C21_PlotCallerTakesRows ==
    /\ pc = "plotted" /\ ~args.disp /\ args.rows = 2
    /\ again.err = "none"
    /\ again.d.velmodel.of = "velremap" /\ again.d.velmodel.row = 0
    /\ again.d.sigmodel.of = "velremap" /\ again.d.sigmodel.row = 1

----------------------------------------------------------------------------
(* The least-squares path of models/bisym.fit *)

\* C22: with method='lsq', fit reaches the bounded least-squares solver,
\* never opens a worker pool and never starts the nested sampler, and
\* returns the pair (solver result, context); also with disp=False, where
\* evaluating the residual function raises no error.
C22_LsqReturnsSolverResult ==
    (call.module = "bisym" /\ call.method = "lsq") =>
        /\ pool = "none" /\ ~Did("pool") /\ ~Did("sampler")
        /\ sampler.st # "none" => sampler.kind = "lsq"
        /\ (fpc = "left" /\ ~TooFewBins(call)) =>
              /\ Did("solver") /\ ~Did("minfunc raised")
              /\ outcome = "returned"
              /\ sampler.st = "finished" /\ sampler.context = "args"

\* what holds: no pool and no nested sampler on the least-squares path, and
\* with a dispersion profile the solver result and the context are returned
C22_LsqWithDispReturns ==
    (call.module = "bisym" /\ call.method = "lsq") =>
        /\ pool = "none" /\ ~Did("pool") /\ ~Did("sampler")
        /\ sampler.st # "none" => sampler.kind = "lsq"
        /\ (fpc = "left" /\ ~TooFewBins(call)) =>
              /\ Did("solver")
              /\ call.disp => /\ outcome = "returned" /\ ~Did("minfunc raised")
                              /\ sampler.st = "finished" /\ sampler.context = "args"
              /\ ~call.disp => outcome = "TypeError" /\ sampler.st = "none"

C22_DispWitness ==
    /\ call.module = "bisym" /\ call.method = "lsq" /\ call.disp /\ call.cores = 2
    /\ fpc = "left" /\ outcome = "returned" /\ sampler.kind = "lsq" /\ pool = "none"

\* disp=False: the first evaluation of the residual raises TypeError and fit
\* returns nothing
C22_NoDispRaises ==
    /\ call.module = "bisym" /\ call.method = "lsq" /\ ~call.disp
    /\ fpc = "left" /\ Did("solver") /\ outcome = "TypeError" /\ sampler.st = "none"

----------------------------------------------------------------------------
(* The order of the plan, the pool and the evaluations in fit *)

\* how often a step was taken, and the place of its first occurrence
Count(e) == Cardinality({ i \in 1..Len(done) : done[i] = e })

Pos(e) == CHOOSE i \in 1..Len(done) : done[i] = e /\ \A j \in 1..(i - 1) : done[j] # e

\* the module global conv of the module whose fit is running
GlobalConv == IF call.module = "fitting" THEN conv.fitting ELSE conv.bisym

\* C27: in fit, the process-global convolution plan is created exactly once
\* per call and before the worker pool is opened, so that every worker
\* starts with the plan seeded and no likelihood evaluation runs before the
\* plan exists.
C27_PlanOnceBeforePool ==
    /\ Count("plan") <= 1
    /\ (GlobalConv # Unbound) <=> Did("plan")
    /\ PastPool => Count("plan") = 1
    /\ (Did("pool") \/ pool # "none") => /\ Did("plan") /\ GlobalConv \in 1..plans
                                         /\ Did("pool") => Pos("plan") < Pos("pool")
    /\ sampler.st # "none" => GlobalConv \in 1..plans
    /\ evals > 0 => GlobalConv \in 1..plans

C27_Witness ==
    /\ call.module = "bisym" /\ call.method = "dynesty" /\ call.cores = 2
    /\ pool = "open" /\ evals = MaxEvals
    /\ Count("plan") = 1 /\ Pos("plan") < Pos("pool") /\ GlobalConv = 1

\* the mock of fitting.fit makes a plan of its own first: the global plan is
\* the second ConvolveFFTW object of the call
C27_MockWitness ==
    /\ call.module = "fitting" /\ call.mock /\ call.cores = 2
    /\ pool = "open" /\ evals > 0
    /\ Count("plan") = 1 /\ plans = 2 /\ GlobalConv = 2

\* C28: every worker pool that fit opens is closed before fit is left, on
\* normal return and also when the sampler or a likelihood evaluation
\* raises; no exit path of fit leaves an open pool behind.
C28_PoolClosedOnEveryExit ==
    fpc = "left" => pool # "open"

\* what holds: a pool that was opened is closed when fit returns
C28_PoolClosedOnReturn ==
    (fpc = "left" /\ outcome = "returned") =>
        /\ pool # "open"
        /\ Did("pool") <=> pool = "closed"

C28_ReturnWitness ==
    /\ fpc = "left" /\ outcome = "returned" /\ call.cores = 2
    /\ call.module = "bisym" /\ Did("pool") /\ pool = "closed"

\* a likelihood evaluation raises: fit is left with the pool open
C28_LeakWitness ==
    /\ fpc = "left" /\ outcome = "LikelihoodError" /\ Did("pool") /\ pool = "open"

----------------------------------------------------------------------------
(* output.dictformatting and the FITS branch of plotting.fileprep: a       *)
(* dictionary of results is padded into a table row, and a row read back   *)
(* from the table is cut to its unmasked entries again.  The row is a      *)
(* list in dictformatting; makealltable gives its places the names of the  *)
(* dictionary's keys followed by velmask, sigmask, drpindex, dapindex, and *)
(* fileprep reads the columns by those names.  Of the scalar entries only  *)
(* inc and of the bounds only vtl and sigl are carried.                    *)

\* np.zeros(20), np.ones(20, dtype=bool)
PadLen == 20

MaxProf == 21

VelKeys == {"vt", "v2t", "v2r", "vtl"}
SigKeys == {"sig", "sigl"}
DictKeys == {"inc"} \cup VelKeys \cup SigKeys
RowKeys == DictKeys \cup {"velmask", "sigmask", "drpindex", "dapindex"}

\* the value None
NoneRow == [k |-> "None"]

\* a profile of n entries: entry i is base + i, with zeros where the
\* pattern puts them
Prof(n, pat, base) ==
    [i \in 1..n |->
        IF pat = "allzero" \/ (pat = "zerofirst" /\ i = 1) \/ (pat = "zerolast" /\ i = n)
        THEN 0 ELSE base + i]

Patterns == {"tagged", "zerofirst", "zerolast", "allzero"}

\* the entries by which the dispersion medians of profs fall short of
\* their bounds: none with a free centre, three with a fixed one, where
\* unpack starts the sig block three entries late and the vector ends
SigShort == {0, 3}

\* dictionaries as profs makes them: the velocity profiles and their bounds
\* of one length, the dispersion bounds of that length or one more, the
\* dispersion medians as long as their bounds or short of them
TableDicts ==
    { [k \in DictKeys |->
          CASE k = "inc"  -> 45
            [] k = "vt"   -> Prof(nv, pat, 0)
            [] k = "v2t"  -> Prof(nv, "tagged", 30)
            [] k = "v2r"  -> Prof(nv, "zerolast", 60)
            [] k = "vtl"  -> Prof(nv, pat, 90)
            [] k = "sig"  -> Prof(IF nv + more >= short THEN nv + more - short ELSE 0,
                                  "tagged", 120)
            [] k = "sigl" -> Prof(nv + more, "zerofirst", 150)] :
        nv \in 0..MaxProf, pat \in Patterns, more \in {0, 1}, short \in SigShort }

\* dnew = np.zeros(20); dnew[:len(x)] = x  (ValueError when x is longer)
Pad(x) == x \o [i \in 1..(PadLen - Len(x)) |-> 0]

\* mask = np.ones(20, dtype=bool); mask[:n] = False
MaskFor(n) == [i \in 1..PadLen |-> i > n]

\* a slip: the mask is taken from the zeros of the padded array
MaskFor_fromZeros(x) == [i \in 1..PadLen |-> i > Len(x) \/ x[i] = 0]

\* a slip in dictformatting: the masks mark the zeros of the padded arrays
dictformatting_maskZeros(d, listed) ==
    IF \E k \in VelKeys \cup SigKeys : Len(d[k]) > PadLen THEN NoneRow
    ELSE IF ~listed THEN NoneRow
    ELSE [k \in RowKeys |->
            CASE k \in VelKeys \cup SigKeys -> Pad(d[k])
              [] k = "velmask"  -> MaskFor_fromZeros(d["vt"])
              [] k = "sigmask"  -> MaskFor_fromZeros(d["sig"])
              [] k = "drpindex" -> 0
              [] k = "dapindex" -> 0
              [] OTHER          -> d[k]]

\* output.dictformatting: every array of the dictionary is padded with
\* zeros to 20 entries, velmask and sigmask are cleared over the lengths of
\* vt and sig, and the indices of the galaxy in drpall and dapall are
\* appended; any exception on the way (an array longer than 20, a galaxy
\* that is not listed) makes the result None
dictformatting(d, listed) ==
    IF \E k \in VelKeys \cup SigKeys : Len(d[k]) > PadLen THEN NoneRow
    ELSE IF ~listed THEN NoneRow
    ELSE [k \in RowKeys |->
            CASE k \in VelKeys \cup SigKeys -> Pad(d[k])
              [] k = "velmask"  -> MaskFor(Len(d["vt"]))
              [] k = "sigmask"  -> MaskFor(Len(d["sig"]))
              [] k = "drpindex" -> 0
              [] k = "dapindex" -> 0
              [] OTHER          -> d[k]]

\* x[mask == 0]: the entries of x at the places where mask is False
RECURSIVE SelectFrom(_, _, _)
SelectFrom(x, mask, i) ==
    IF i > Len(x) THEN <<>>
    ELSE (IF mask[i] THEN <<>> ELSE <<x[i]>>) \o SelectFrom(x, mask, i + 1)

Unmasked(x, mask) == SelectFrom(x, mask, 1)

\* mask.sum()
RECURSIVE SumFrom(_, _)
SumFrom(mask, i) ==
    IF i > Len(mask) THEN 0 ELSE (IF mask[i] THEN 1 ELSE 0) + SumFrom(mask, i + 1)

MaskSum(mask) == SumFrom(mask, 1)

\* the dictionary fileprep makes of a table row
fitsResdict(row) ==
    [k \in RowKeys |->
        IF k \in VelKeys THEN Unmasked(row[k], row["velmask"])
        ELSE IF k \in SigKeys THEN Unmasked(row[k], row["sigmask"])
        ELSE row[k]]

\* lenmeds = 6 + 3*(fill - velmask.sum() - fixcent) + (fill - sigmask.sum())
\* with fill = len(velmask) and fixcent = (vt[0] == 0)
lenmeds(row, fixed) ==
    6 + 3 * (Len(row["velmask"]) - MaskSum(row["velmask"]) - fixed)
      + (Len(row["sigmask"]) - MaskSum(row["sigmask"]))

\* plotting.fileprep on a FITS result: the columns are cut to their
\* unmasked entries, fixcent is read off vt[0] (IndexError on an empty vt),
\* meds is a vector of lenmeds zeros, and the shape check follows:
\*   nbins = (len(meds) - args.nglobs - 3*args.mix - fixcent)/4
\*   if not nbins.is_integer(): raise ValueError
fileprep_fits(row, a) ==
    LET resdict == fitsResdict(row)
        fixed   == IF resdict["vt"][1] = 0 THEN 1 ELSE 0
        n       == lenmeds(row, fixed)
        num     == n - a.nglobs - 3 * (IF a.mix THEN 1 ELSE 0) - fixed
    IN  IF Len(resdict["vt"]) = 0
        THEN [err |-> "IndexError", d |-> NoDict, meds |-> 0, fixcent |-> FALSE]
        ELSE IF num % 4 # 0
        THEN [err |-> "ValueError", d |-> NoDict, meds |-> n, fixcent |-> fixed = 1]
        ELSE [err |-> "none", d |-> resdict, meds |-> n, fixcent |-> fixed = 1]

\* cen and mix as fileprep is called with them; fixcent is overwritten from
\* the table
TableContexts ==
    { [nglobs |-> g, disp |-> TRUE, mix |-> m, weight |-> 10, fixcent |-> TRUE,
       edges |-> <<>>, hasguess |-> FALSE, guess |-> <<>>, penalty |-> 100] :
        g \in {4, 6}, m \in BOOLEAN }

\* a dictionary and whether its galaxy is listed in drpall and dapall
InitTable ==
    /\ pc = "ready"
    /\ args \in TableContexts
    /\ paramdict \in { [err |-> "none", d |-> d, listed |-> l] :
                            d \in TableDicts, l \in BOOLEAN }
    /\ gaussprior = FALSE
    /\ params = <<>>
    /\ flat = NoResult /\ again = Raise("unset")
    /\ after = <<>>
    /\ SmoothIdle /\ LikeIdle /\ FitIdle

\* data = dictformatting(d, drp, dap)
Dictformatting ==
    /\ pc = "ready"
    /\ flat' = Returned(dictformatting(paramdict.d, paramdict.listed))
    /\ pc' = "row"
    /\ UNCHANGED <<args, params, gaussprior, paramdict, again, after>>
    /\ UNCHANGED <<smvars, lkvars, fitvars>>

\* fileprep(f) on the table the row was written to
FileprepFits ==
    /\ pc = "row" /\ flat.v # NoneRow
    /\ again' = fileprep_fits(flat.v, args)
    /\ args' = IF again'.err = "IndexError" THEN args
               ELSE [args EXCEPT !.fixcent = again'.fixcent]
    /\ pc' = "read"
    /\ UNCHANGED <<params, gaussprior, paramdict, flat, after>>
    /\ UNCHANGED <<smvars, lkvars, fitvars>>

NextTable == Dictformatting \/ FileprepFits

SpecTable == InitTable /\ [][NextTable]_vars

C29_TooLongWitness ==
    /\ pc = "row" /\ paramdict.listed /\ Len(paramdict.d["sig"]) = PadLen + 1
    /\ Len(paramdict.d["vt"]) = PadLen /\ flat.v = NoneRow

\* dispersion medians shorter than their bounds: the one mask made from sig
\* cuts the bounds to the length of the medians
C29_ShortSigCutsBounds ==
    /\ pc = "read" /\ paramdict.listed /\ again.err = "none"
    /\ Len(paramdict.d["sigl"]) = 4 /\ Len(paramdict.d["sig"]) = 1
    /\ Len(again.d["sigl"]) = 1

\* C30: when fileprep reads a saved FITS result in which the velocity and
\* dispersion masks leave the same number of bins unmasked, the vector
\* length it reconstructs passes the shape check (no ValueError) for every
\* combination of cen in {True, False} and mix in {False, True}, and for a
\* fixed and a free centre bin alike.  Stated for a result with at least
\* one bin.
C30_FitsShapeAccepted ==
    (pc = "read" /\ MaskSum(flat.v["velmask"]) = MaskSum(flat.v["sigmask"])
        /\ MaskSum(flat.v["velmask"]) < PadLen) =>
        again.err = "none"

\* what holds: the length is made for six globals and no mixture, and the
\* check passes for cen=True, mix=False only
C30_AcceptedIffCenNoMix ==
    (pc = "read" /\ MaskSum(flat.v["velmask"]) = MaskSum(flat.v["sigmask"])
        /\ MaskSum(flat.v["velmask"]) < PadLen) =>
        /\ again.meds = 6 + 4 * Len(paramdict.d["vt"]) - 3 * (IF again.fixcent THEN 1 ELSE 0)
        /\ (again.err = "none") <=> (args.nglobs = 6 /\ ~args.mix)
        /\ again.err \in {"none", "ValueError"}

C30_CenWitness ==
    /\ pc = "read" /\ args.nglobs = 6 /\ ~args.mix /\ again.fixcent
    /\ Len(paramdict.d["vt"]) = 4 /\ Len(paramdict.d["sig"]) = 4
    /\ again.err = "none" /\ again.meds = 19

\* cen=False: the row that was just accepted with cen=True is refused
C30_NoCenRaises ==
    /\ pc = "read" /\ args.nglobs = 4 /\ ~args.mix /\ ~again.fixcent
    /\ Len(paramdict.d["vt"]) = 4 /\ Len(paramdict.d["sig"]) = 4
    /\ again.err = "ValueError" /\ again.meds = 22

====
